---------------------------- MODULE Spec2Model ----------------------------
(***************************************************************************)
(* KindlePerfMate: the stopwatch-driven iteration recorder (StopwatchWidget)*)
(* coupled to the filterable results table (TestTableWidget) and the main  *)
(* window that wires their signals.                                        *)
(*                                                                         *)
(* Python objects have identity: TestCase and Iteration objects live in two*)
(* heaps (tcs, iters) and lists hold references (ids).  Row and iteration  *)
(* indexes are 0-based as in the source; At(seq, i) reads a Python list.   *)
(* A handler is an operator from the state record to the state record, so  *)
(* that a signal emission is the sequential call of its connected slots.   *)
(*                                                                         *)
(* Spec, SpecTable, SpecConfirm, SpecRecording, SpecSession and SpecNotes  *)
(* are the application under different sets of user events: Spec has the   *)
(* Timer and leaves the items of the table out (tracks_items is FALSE),    *)
(* SpecTable and SpecRecording paint the rows, SpecConfirm runs a confirm  *)
(* statement by statement, SpecSession and SpecNotes save the session and  *)
(* close the window.  SpecStats and SpecData apply the functions of        *)
(* timer_utils and data_model on their own, to arguments drawn by their    *)
(* initial predicates; the variable calc holds the call.                   *)
(***************************************************************************)
EXTENDS Integers, Sequences, FiniteSets, TLC

VARIABLES
    is_running,                \* StopwatchWidget.is_running
    elapsed_ms,                \* StopwatchWidget._elapsed_ms
    elapsed_timer,             \* ms since StopwatchWidget.elapsed_timer.restart()
    checked,                   \* start_stop_button.isChecked()
    reset_enabled,             \* reset_button.isEnabled()
    current_test_case_index,   \* StopwatchWidget._current_test_case_index
    current_iteration_index,   \* StopwatchWidget._current_iteration_index
    sw_test_cases,             \* StopwatchWidget._test_cases (list of TestCase refs)
    iteration_notes_input,     \* iteration_notes_input.text()
    priority_filter_combo,     \* priority_filter_combo.currentText()
    current_session,           \* MainWindow.current_session / TestTableWidget.session_data
    filtered_test_cases,       \* TestTableWidget.filtered_test_cases (list of TestCase refs)
    current_filter,            \* TestTableWidget._current_filter
    selected_row,              \* selected row of the table, -1 when none
    unsaved_changes,           \* MainWindow._unsaved_changes
    current_session_filepath,  \* MainWindow._current_session_filepath
    global_notes_edit,         \* NotesSearchWidget.global_notes_edit.toPlainText()
    notes_timer,               \* NotesSearchWidget._notes_timer.isActive()
    session_file,              \* what Save wrote last to the session's path, None before
    window_open,               \* the main window has accepted no close event
    items,                     \* the Iter 1..5 and Average items of the table rows
    tracks_items,              \* whether the model keeps the items: fixed by the initial predicate
    tcs,                       \* heap of TestCase objects
    iters,                     \* heap of Iteration objects
    pc,                        \* statements of confirm_and_next executed by the running confirm
    raised,                    \* the exception that escaped the last handler, None if
                               \* none; PyQt 5.5 and later abort the process when a
                               \* slot raises, earlier versions print the traceback
                               \* and go on: a behaviour goes on, and each of its
                               \* prefixes is a run that an abort ended
    calc,                      \* arguments and result of a function applied on its own
    changes,                   \* timings recorded and cells edited since the session was created
    completed,                 \* history: a fifth confirm completed a test case and no
                               \* test case was selected since
    last_op                    \* history: the kind of the last user event, "confirm",
                               \* "filter", "load", "load failed", "toggle", "reset",
                               \* a save or a close with its outcome, or "other"

vars == <<is_running, elapsed_ms, elapsed_timer, checked, reset_enabled,
          current_test_case_index, current_iteration_index, sw_test_cases,
          iteration_notes_input, priority_filter_combo, current_session,
          filtered_test_cases, current_filter, selected_row, unsaved_changes,
          current_session_filepath, global_notes_edit, notes_timer, session_file,
          window_open,
          items, tracks_items, tcs, iters, pc, raised, calc, changes, completed,
          last_op>>

---------------------------------------------------------------------------
(* Bounds of the model *)

\* most TestCases in one session
MaxTC == 3
\* longest measured duration, in ticks of the elapsed timer
MaxMs == 1
\* most changes (timings recorded, cells edited) per session
MaxChanges == 1
\* the same, when neither the Timer nor the notes input is used
MaxTableChanges == 2
\* the same, when the session is also saved and the window closed
MaxSessionChanges == 1
\* the entries of the priority filter combo box a user picks from: the first ones
NumFilterChoices == 3

(* Program constants *)

\* fixed ledger size
NumIterations == 5
\* spike percentages from which an iteration cell is coloured
SPIKE_THRESHOLD_MINOR == 10
SPIKE_THRESHOLD_MAJOR == 20

---------------------------------------------------------------------------
(* Values *)

None == <<>>
Some(v) == <<v>>

At(seq, i) == seq[i + 1]

Range(seq) == {seq[i] : i \in 1..Len(seq)}

\* Iteration() with the dataclass defaults
Iteration == [time_ms |-> None, notes |-> "", skipped |-> FALSE]

\* str.strip() on the texts of the model
Strip(t) == CASE t = " a " -> "a"
              [] t = " " -> ""
              [] OTHER -> t

\* the entries of the priority filter combo box, in order
PriorityFilters == <<"All", "P0", "P1", "P2", "P3", "750">>

TCIds == 0..MaxTC
DummyId == 0
CellIds == 1..(NumIterations * (MaxTC + 1))

\* heap slot of a TestCase object that no list references
NoTestCase == [name |-> "", steps |-> <<>>, baseline_ms |-> None, priority |-> "",
               iterations |-> <<>>, test_notes |-> "", quip_url |-> ""]


---------------------------------------------------------------------------
(* The state as one record, so that handlers compose *)

State == [is_running |-> is_running, elapsed_ms |-> elapsed_ms,
          elapsed_timer |-> elapsed_timer, checked |-> checked,
          reset_enabled |-> reset_enabled,
          current_test_case_index |-> current_test_case_index,
          current_iteration_index |-> current_iteration_index,
          sw_test_cases |-> sw_test_cases,
          iteration_notes_input |-> iteration_notes_input,
          priority_filter_combo |-> priority_filter_combo,
          current_session |-> current_session,
          filtered_test_cases |-> filtered_test_cases,
          current_filter |-> current_filter, selected_row |-> selected_row,
          unsaved_changes |-> unsaved_changes,
          current_session_filepath |-> current_session_filepath,
          global_notes_edit |-> global_notes_edit, notes_timer |-> notes_timer,
          session_file |-> session_file, window_open |-> window_open,
          items |-> items, tracks_items |-> tracks_items, tcs |-> tcs,
          iters |-> iters,
          raised |-> None, returned |-> None]

\* session.test_cases, the empty list when there is no session
SessionTestCases(s) ==
    IF s.current_session = None THEN <<>> ELSE s.current_session[1].test_cases

---------------------------------------------------------------------------
(* The heaps: allocation and reachability *)

LiveTCs(s) == Range(SessionTestCases(s)) \cup Range(s.sw_test_cases)
                 \cup Range(s.filtered_test_cases)

LiveCells(s) == UNION {Range(s.tcs[t].iterations) : t \in LiveTCs(s)}

RECURSIVE SmallestK(_, _)
SmallestK(S, k) ==
    IF k = 0 \/ S = {} THEN <<>>
    ELSE LET m == CHOOSE x \in S : \A y \in S : x <= y
         IN <<m>> \o SmallestK(S \ {m}, k - 1)

\* k new Iteration() objects: their references
NewCells(s, k) == SmallestK(CellIds \ LiveCells(s), k)

\* the heap after k new Iteration() objects were created at the references cells
WithNewCells(s, cells) ==
    LET new == Range(cells)
        old == s.iters
    IN [s EXCEPT !.iters = [c \in CellIds |-> IF c \in new THEN Iteration ELSE old[c]]]

\* TestCase(name=...) stored at heap slot id: every other field takes its
\* dataclass default, the ledger is five new Iteration() objects
new_TestCase(s, id, name) ==
    LET s0 == [s EXCEPT !.tcs[id] = NoTestCase]
        cells == NewCells(s0, NumIterations)
    IN [WithNewCells(s0, cells) EXCEPT
            !.tcs[id] = [name |-> name, steps |-> <<>>, baseline_ms |-> None,
                         priority |-> "P3", iterations |-> cells,
                         test_notes |-> "", quip_url |-> ""]]

\* unreachable objects are forgotten (their heap slots take a fixed value), and
\* so is the reading of the elapsed timer when no measurement runs: it is read
\* next after a restart
Collect(s) ==
    LET live_tcs == LiveTCs(s)
        live_cells == LiveCells(s)
        old_tcs == s.tcs
        old_iters == s.iters
    IN [s EXCEPT !.elapsed_timer = IF s.is_running THEN @ ELSE 0,
                 !.tcs = [t \in TCIds |->
                            IF t \in live_tcs THEN old_tcs[t] ELSE NoTestCase],
                 !.iters = [c \in CellIds |->
                            IF c \in live_cells THEN old_iters[c] ELSE Iteration]]

\* the value of a TestCase, as the dataclass __eq__ compares it: field by
\* field, the ledger by the values of its Iterations
TestCaseValue(s, t) ==
    [s.tcs[t] EXCEPT !.iterations =
        [i \in 1..Len(s.tcs[t].iterations) |-> s.iters[s.tcs[t].iterations[i]]]]

\* list.index(x): the 0-based index of the first element that is x or equals
\* x, -1 standing for ValueError
ListIndex(s, list, x) ==
    LET value == TestCaseValue(s, x)
        found == {j \in 1..Len(list) :
                     list[j] = x \/ TestCaseValue(s, list[j]) = value}
    IN IF found = {} THEN -1
       ELSE (CHOOSE j \in found : \A k \in found : j <= k) - 1

\* a faulty resume point: the number of recorded slots, which is the first
\* empty slot only when no gap precedes a recorded slot
FirstEmptyIter_counting(s, t) ==
    LET its == s.tcs[t].iterations
    IN Cardinality({i \in 1..Len(its) : s.iters[its[i]].time_ms # None})

\* next((i for i, iter in enumerate(tc.iterations) if iter.time_ms is None),
\*      len(tc.iterations))
FirstEmptyIter(s, t) ==
    LET its == s.tcs[t].iterations
        empty == {i \in 1..Len(its) : s.iters[its[i]].time_ms = None}
    IN IF empty = {} THEN Len(its)
       ELSE (CHOOSE i \in empty : \A j \in empty : i <= j) - 1

\* while len(tc.iterations) <= index: tc.iterations.append(Iteration())
PadIterations(s, t, index) ==
    LET have == Len(s.tcs[t].iterations)
        cells == IF have <= index THEN NewCells(s, index + 1 - have) ELSE <<>>
    IN [WithNewCells(s, cells) EXCEPT !.tcs[t].iterations = @ \o cells]

---------------------------------------------------------------------------
(* StopwatchWidget: the Timer *)

RECURSIVE setChecked(_, _), toggle_timer(_, _), start_timer(_), stop_timer(_)

\* QAbstractButton.setChecked: toggled is emitted only when the state changes
setChecked(s, value) ==
    IF s.checked = value THEN s
    ELSE toggle_timer([s EXCEPT !.checked = value], value)

toggle_timer(s, is_checked) ==
    IF is_checked THEN start_timer(s) ELSE stop_timer(s)

\* a start that resumes from the frozen value
start_timer_resuming(s) ==
    IF ~s.is_running
    THEN LET s1 == [s EXCEPT !.elapsed_timer = s.elapsed_ms, !.is_running = TRUE]
             s2 == setChecked(s1, TRUE)
         IN [s2 EXCEPT !.reset_enabled = TRUE]
    ELSE s

start_timer(s) ==
    IF ~s.is_running
    THEN LET s1 == [s EXCEPT !.elapsed_timer = 0, !.is_running = TRUE]
             s2 == setChecked(s1, TRUE)
         IN [s2 EXCEPT !.reset_enabled = TRUE]
    ELSE s

\* a stop that leaves the Start/Stop button as it is
stop_timer_button_kept(s) ==
    IF s.is_running
    THEN [s EXCEPT !.elapsed_ms = s.elapsed_timer, !.is_running = FALSE]
    ELSE s

stop_timer(s) ==
    IF s.is_running
    THEN LET s1 == [s EXCEPT !.elapsed_ms = s.elapsed_timer, !.is_running = FALSE]
         IN setChecked(s1, FALSE)
    ELSE s

\* a reset that zeroes the value of a Timer it leaves running
reset_timer_running(s) ==
    [s EXCEPT !.elapsed_ms = 0, !.reset_enabled = FALSE]

reset_timer(s) ==
    LET s1 == stop_timer(s)
    IN [s1 EXCEPT !.elapsed_ms = 0, !.reset_enabled = FALSE]

\* a tick that reads the elapsed timer whether or not the Timer runs
update_time_stopped(s) ==
    [s EXCEPT !.elapsed_ms = s.elapsed_timer]

update_time(s) ==
    IF s.is_running THEN [s EXCEPT !.elapsed_ms = s.elapsed_timer] ELSE s

---------------------------------------------------------------------------
(* StopwatchWidget: the current test case *)

update_current_info_display(s) ==
    IF /\ s.sw_test_cases # <<>>
       /\ s.current_test_case_index # -1
       /\ s.current_test_case_index < Len(s.sw_test_cases)
    THEN LET tc == At(s.sw_test_cases, s.current_test_case_index)
         IN IF s.current_iteration_index < Len(s.tcs[tc].iterations)
            THEN [s EXCEPT !.iteration_notes_input =
                     s.iters[At(s.tcs[tc].iterations, s.current_iteration_index)].notes]
            ELSE [s EXCEPT !.iteration_notes_input = ""]
    ELSE [s EXCEPT !.iteration_notes_input = ""]

move_to_next_test_case(s) ==
    update_current_info_display(
        [s EXCEPT !.current_test_case_index = -1, !.current_iteration_index = 0])

\* the slot of current_test_case_changed: row_index is overwritten by 0, the
\* index of the test case in the one-element list the stopwatch keeps
update_current_test_case_info(s, row_index, test_case, first_empty_iteration_index) ==
    update_current_info_display(
        [s EXCEPT !.sw_test_cases = <<test_case>>,
                  !.current_test_case_index = 0,
                  !.current_iteration_index = first_empty_iteration_index])

---------------------------------------------------------------------------
(* timer_utils: the average and the spike; the colouring of a row *)

\* Times are floats in the source.  A number of the model is the exact
\* fraction <<n, d>> with d > 0, standing for n / d: the rounding of the
\* float operations is left out.
Num(n) == <<n, 1>>
Less(a, b) == a[1] * b[2] < b[1] * a[2]
AtLeast(a, b) == ~Less(a, b)
Same(a, b) == a[1] * b[2] = b[1] * a[2]
Positive(a) == a[1] > 0
Minus(a, b) == <<a[1] * b[2] - b[1] * a[2], a[2] * b[2]>>
Times(a, b) == <<a[1] * b[1], a[2] * b[2]>>
\* a / b for a positive b
Over(a, b) == <<a[1] * b[2], a[2] * b[1]>>

RECURSIVE Sum(_)
\* sum(list)
Sum(list) == IF Len(list) = 0 THEN 0 ELSE Head(list) + Sum(Tail(list))

\* the mean over every iteration that has a time, skipped or not
calculate_average_of_skipped(iterations) ==
    LET valid == SelectSeq(iterations, LAMBDA iter : iter.time_ms # None)
        valid_times == [i \in 1..Len(valid) |-> valid[i].time_ms[1]]
    IN IF Len(valid) = 0 THEN None
       ELSE Some(<<Sum(valid_times), Len(valid_times)>>)

\* valid_times = [iter.time_ms for iter in iterations
\*                if iter.time_ms is not None and not iter.skipped]
\* if not valid_times: return None
\* return sum(valid_times) / len(valid_times)
calculate_average(iterations) ==
    LET valid == SelectSeq(iterations,
                           LAMBDA iter : iter.time_ms # None /\ ~iter.skipped)
        valid_times == [i \in 1..Len(valid) |-> valid[i].time_ms[1]]
    IN IF Len(valid) = 0 THEN None
       ELSE Some(<<Sum(valid_times), Len(valid_times)>>)

\* the percentage by which a time exceeds a positive reference
Deviation(iteration_ms, reference_ms) ==
    Times(Over(Minus(iteration_ms, reference_ms), reference_ms), Num(100))

\* the deviation from the average even when there is a baseline
calculate_spike_from_average(iteration_ms, baseline_ms, average_ms) ==
    IF iteration_ms = None \/ ~Positive(iteration_ms[1]) THEN None
    ELSE IF average_ms # None /\ Positive(average_ms[1])
         THEN Some(Deviation(iteration_ms[1], average_ms[1]))
    ELSE IF baseline_ms # None /\ Positive(baseline_ms[1])
         THEN Some(Deviation(iteration_ms[1], baseline_ms[1]))
    ELSE None

\* if iteration_ms is None or iteration_ms <= 0: return None
\* if baseline_ms is not None and baseline_ms > 0:
\*     return ((iteration_ms - baseline_ms) / baseline_ms) * 100
\* elif average_ms is not None and average_ms > 0:
\*     return ((iteration_ms - average_ms) / average_ms) * 100
\* return None
calculate_spike(iteration_ms, baseline_ms, average_ms) ==
    IF iteration_ms = None \/ ~Positive(iteration_ms[1]) THEN None
    ELSE IF baseline_ms # None /\ Positive(baseline_ms[1])
         THEN Some(Deviation(iteration_ms[1], baseline_ms[1]))
    ELSE IF average_ms # None /\ Positive(average_ms[1])
         THEN Some(Deviation(iteration_ms[1], average_ms[1]))
    ELSE None

\* an optional int of the data model as an optional number
OptNum(v) == IF v = None THEN None ELSE Some(Num(v[1]))

\* the backgrounds with the thresholds themselves left out of their ranges
update_row_calculations_above(tc) ==
    LET average_ms == calculate_average(tc.iterations)
        background(i) ==
            LET iter_data == IF i < Len(tc.iterations) THEN At(tc.iterations, i)
                             ELSE Iteration
                spike_pct == calculate_spike(OptNum(iter_data.time_ms),
                                             OptNum(tc.baseline_ms), average_ms)
            IN IF iter_data.skipped THEN "skipped"
               ELSE IF spike_pct # None /\ Positive(spike_pct[1])
                    THEN IF Less(Num(SPIKE_THRESHOLD_MAJOR), spike_pct[1])
                         THEN "major"
                         ELSE IF Less(Num(SPIKE_THRESHOLD_MINOR), spike_pct[1])
                         THEN "minor"
                         ELSE "base"
               ELSE "base"
    IN [average |-> average_ms,
        backgrounds |-> [i \in 1..NumIterations |-> background(i - 1)]]

\* TestTableWidget.update_row_calculations for the TestCase of the row: the
\* value of the Average cell and the backgrounds of the five iteration cells
\* ("base" the default background, "skipped" the grey of a skipped slot,
\* "minor" and "major" the two spike colours)
update_row_calculations(tc) ==
    LET average_ms == calculate_average(tc.iterations)
        background(i) ==
            LET iter_data == IF i < Len(tc.iterations) THEN At(tc.iterations, i)
                             ELSE Iteration
                spike_pct == calculate_spike(OptNum(iter_data.time_ms),
                                             OptNum(tc.baseline_ms), average_ms)
            IN IF iter_data.skipped THEN "skipped"
               ELSE IF spike_pct # None /\ Positive(spike_pct[1])
                    THEN IF AtLeast(spike_pct[1], Num(SPIKE_THRESHOLD_MAJOR))
                         THEN "major"
                         ELSE IF AtLeast(spike_pct[1], Num(SPIKE_THRESHOLD_MINOR))
                         THEN "minor"
                         ELSE "base"
               ELSE "base"
    IN [average |-> average_ms,
        backgrounds |-> [i \in 1..NumIterations |-> background(i - 1)]]

---------------------------------------------------------------------------
(* TestTableWidget *)

\* current_test_case_changed.emit(row, tc, first_empty): its slots in the
\* order of connection; the steps viewer only displays
emit_current_test_case_changed(s, row_index, test_case, first_empty_iter) ==
    update_current_test_case_info(s, row_index, test_case, first_empty_iter)

\* current_test_case_changed.emit(-1, TestCase(name=""), 0)
emit_no_test_case(s) ==
    emit_current_test_case_changed(new_TestCase(s, DummyId, ""), -1, DummyId, 0)

handle_selection_change(s) ==
    IF s.selected_row = -1
    THEN emit_no_test_case(s)
    ELSE IF s.selected_row < 0 \/ s.selected_row >= Len(s.filtered_test_cases)
    THEN emit_no_test_case(s)
    ELSE LET selected_tc == At(s.filtered_test_cases, s.selected_row)
             first_empty_iter == FirstEmptyIter(s, selected_tc)
         IN emit_current_test_case_changed(s, s.selected_row, selected_tc, first_empty_iter)

\* QTableWidget.selectRow: itemSelectionChanged is emitted when the selection changes
selectRow(s, row) ==
    IF s.selected_row = row THEN s
    ELSE handle_selection_change([s EXCEPT !.selected_row = row])

RECURSIVE Reversed(_)
Reversed(seq) == IF seq = <<>> THEN <<>> ELSE Reversed(Tail(seq)) \o <<Head(seq)>>

\* a faulty filter: each match is put in front of the matches found before it
PriorityMatches_prepending(s, test_cases, priority) ==
    Reversed(SelectSeq(test_cases, LAMBDA t : s.tcs[t].priority = priority))

\* [tc for tc in test_cases if tc.priority == priority]
PriorityMatches(s, test_cases, priority) ==
    SelectSeq(test_cases, LAMBDA t : s.tcs[t].priority = priority)

\* The items of a table row that show the ledger: times[i] is the value
\* (Qt.UserRole) of the cell Iter i, average the value of the Average cell,
\* backgrounds[i] the colour of the cell Iter i.  The displayed texts are
\* format_time of these values.
BlankRow == [times |-> [i \in 1..NumIterations |-> None],
             average |-> None,
             backgrounds |-> [i \in 1..NumIterations |-> "base"]]

\* TestTableWidget.update_row_calculations(row_index): the Average item and
\* the backgrounds of the row, from the TestCase the view holds at that row
update_row_calculations_of_row(s, row_index) ==
    IF ~s.tracks_items \/ row_index < 0 \/ row_index >= Len(s.filtered_test_cases)
    THEN s
    ELSE LET tc == At(s.filtered_test_cases, row_index)
             shown == update_row_calculations(TestCaseValue(s, tc))
         IN [s EXCEPT !.items[row_index + 1].average = shown.average,
                      !.items[row_index + 1].backgrounds = shown.backgrounds]

insert_test_case_row(s, row_index, tc) ==
    LET ledger == s.tcs[tc].iterations
        iter_data(i) == IF i < Len(ledger) THEN s.iters[At(ledger, i)] ELSE Iteration
        s1 == [s EXCEPT !.items[row_index + 1].times =
                            [i \in 1..NumIterations |-> iter_data(i - 1).time_ms]]
    IN update_row_calculations_of_row(s1, row_index)

RECURSIVE InsertRows(_, _)
\* for row_index, tc in enumerate(self.filtered_test_cases):
\*     self.insert_test_case_row(row_index, tc)
InsertRows(s, row_index) ==
    IF row_index >= Len(s.filtered_test_cases) THEN s
    ELSE InsertRows(insert_test_case_row(s, row_index,
                                         At(s.filtered_test_cases, row_index)),
                    row_index + 1)

\* setRowCount(len(self.filtered_test_cases)) and the population of the rows
populate_rows(s) ==
    IF ~s.tracks_items THEN s
    ELSE InsertRows([s EXCEPT !.items =
                                  [r \in 1..Len(s.filtered_test_cases) |-> BlankRow]],
                    0)

\* the end of update_iteration_data: the time item of the row, then the
\* calculations of the row
show_iteration(s, row_index, iteration_index, iteration_data) ==
    IF ~s.tracks_items THEN s
    ELSE update_row_calculations_of_row(
             [s EXCEPT !.items[row_index + 1].times[iteration_index + 1] =
                           s.iters[iteration_data].time_ms],
             row_index)

\* a faulty filter: the session's own list is narrowed to the matches
apply_priority_filter_narrowing(s, priority) ==
    LET s1 == [s EXCEPT !.current_filter = priority, !.selected_row = -1,
                        !.items = <<>>]
    IN IF s1.current_session = None
       THEN [s1 EXCEPT !.filtered_test_cases = <<>>]
       ELSE LET matches == IF priority = "All"
                           THEN SessionTestCases(s1)
                           ELSE SelectSeq(SessionTestCases(s1),
                                          LAMBDA t : s1.tcs[t].priority = priority)
                s2 == populate_rows(
                          [s1 EXCEPT !.filtered_test_cases = matches,
                                     !.current_session[1].test_cases = matches])
            IN IF Len(s2.filtered_test_cases) > 0
               THEN selectRow(s2, 0)
               ELSE emit_no_test_case(s2)

apply_priority_filter(s, priority) ==
    LET s1 == [s EXCEPT !.current_filter = priority, !.selected_row = -1,
                        !.items = <<>>]
    IN IF s1.current_session = None
       THEN [s1 EXCEPT !.filtered_test_cases = <<>>]
       ELSE LET s2 == populate_rows(
                          [s1 EXCEPT !.filtered_test_cases =
                              IF priority = "All"
                              THEN SessionTestCases(s1)
                              ELSE PriorityMatches(s1, SessionTestCases(s1), priority)])
            IN IF Len(s2.filtered_test_cases) > 0
               THEN selectRow(s2, 0)
               ELSE emit_no_test_case(s2)

\* session is None or <<the session record>>; the print at the end reads
\* session.week and len(session.test_cases)
load_session_data(s, session) ==
    LET s1 == apply_priority_filter([s EXCEPT !.current_session = session],
                                    s.current_filter)
    IN IF session = None
       THEN [s1 EXCEPT !.raised = Some("AttributeError")]
       ELSE s1

\* a slot that takes a negative row from the end of the view, as list
\* indexing does
update_iteration_data_from_end(s, row_index_in_filtered_list, iteration_index, iteration_data) ==
    LET rows == Len(s.filtered_test_cases) IN
    IF \/ s.current_session = None
       \/ row_index_in_filtered_list < -rows
       \/ row_index_in_filtered_list >= rows
    THEN s
    ELSE LET tc_in_filtered_list ==
                 At(s.filtered_test_cases, row_index_in_filtered_list % rows)
             original_row_index == ListIndex(s, SessionTestCases(s), tc_in_filtered_list)
         IN IF original_row_index = -1 \/ iteration_index < 0 \/ iteration_index >= 5
            THEN s
            ELSE LET tc == At(SessionTestCases(s), original_row_index)
                     s1 == PadIterations(s, tc, iteration_index)
                     s2 == [s1 EXCEPT !.tcs[tc].iterations[iteration_index + 1] =
                                          iteration_data]
                 IN show_iteration(s2, row_index_in_filtered_list % rows,
                                   iteration_index, iteration_data)

\* the slot of iteration_saved; iteration_data is a reference to an Iteration
update_iteration_data(s, row_index_in_filtered_list, iteration_index, iteration_data) ==
    IF \/ s.current_session = None
       \/ row_index_in_filtered_list < 0
       \/ row_index_in_filtered_list >= Len(s.filtered_test_cases)
    THEN s
    ELSE LET tc_in_filtered_list == At(s.filtered_test_cases, row_index_in_filtered_list)
             original_row_index == ListIndex(s, SessionTestCases(s), tc_in_filtered_list)
         IN IF original_row_index = -1 \/ iteration_index < 0 \/ iteration_index >= 5
            THEN s
            ELSE LET tc == At(SessionTestCases(s), original_row_index)
                     s1 == PadIterations(s, tc, iteration_index)
                     s2 == [s1 EXCEPT !.tcs[tc].iterations[iteration_index + 1] =
                                          iteration_data]
                 IN show_iteration(s2, row_index_in_filtered_list, iteration_index,
                                   iteration_data)

---------------------------------------------------------------------------
(* MainWindow: the unsaved-changes flag and the signal connections *)

set_unsaved_changes(s) ==
    IF ~s.unsaved_changes THEN [s EXCEPT !.unsaved_changes = TRUE] ELSE s

clear_unsaved_changes(s) ==
    IF s.unsaved_changes THEN [s EXCEPT !.unsaved_changes = FALSE] ELSE s

\* the status bar's session label; main_window.py uses os.path.basename and
\* does not import os: the name raises NameError where a path is shown
update_session_info_display(s) ==
    IF s.current_session # None /\ s.current_session_filepath # None
    THEN [s EXCEPT !.raised = Some("NameError")]
    ELSE s

\* NotesSearchWidget.set_global_notes: setText with the editor's signals
\* blocked, so that the debounce timer is neither started nor stopped
set_global_notes(s, notes) == [s EXCEPT !.global_notes_edit = notes]

\* iteration_saved.emit(row, iteration, data): the table's slot was connected
\* first, the flag's slot second
emit_iteration_saved(s, test_case_index, iteration_index, iteration_data) ==
    set_unsaved_changes(
        update_iteration_data(s, test_case_index, iteration_index, iteration_data))

\* cell_data_changed.emit(...): _handle_data_changed, then _set_unsaved_changes;
\* a QObject whose signals are blocked (blockSignals(True)) delivers none
emit_cell_data_changed(s, signals_blocked) ==
    IF signals_blocked THEN s ELSE set_unsaved_changes(set_unsaved_changes(s))

\* priority_filter_combo.setCurrentText, also the user picking an entry:
\* currentTextChanged reaches apply_priority_filter through priority_filter_changed
setCurrentText(s, text) ==
    IF s.priority_filter_combo = text \/ text \notin Range(PriorityFilters) THEN s
    ELSE apply_priority_filter([s EXCEPT !.priority_filter_combo = text], text)

load_session_data_into_widgets(s, session) ==
    LET s1 == load_session_data(s, session)
    IN IF s1.raised # None
       THEN s1
       ELSE IF session # None
       THEN setCurrentText(set_global_notes(s1, session[1].global_notes),
                           session[1].priority_filter)
       ELSE setCurrentText(set_global_notes(s1, ""), "All")

---------------------------------------------------------------------------
(* StopwatchWidget: Confirm & Next *)

\* the recording steps of confirm_and_next; stops tells whether the Timer is
\* stopped before its value is read
record_iteration(s, stops) ==
    LET current_tc == At(s.sw_test_cases, s.current_test_case_index)
        s1 == IF stops THEN stop_timer(s) ELSE s
        s2 == PadIterations(s1, current_tc, s1.current_iteration_index)
        it == At(s2.tcs[current_tc].iterations, s2.current_iteration_index)
        s3 == [s2 EXCEPT !.iters[it] = [time_ms |-> Some(s1.elapsed_ms),
                                        notes |-> Strip(s1.iteration_notes_input),
                                        skipped |-> FALSE]]
        s4 == emit_iteration_saved(s3, s3.current_test_case_index,
                                   s3.current_iteration_index, it)
        s5 == reset_timer(s4)
        s6 == [s5 EXCEPT !.iteration_notes_input = "",
                         !.current_iteration_index = @ + 1]
    IN IF s6.current_iteration_index >= 5
       THEN move_to_next_test_case(s6)
       ELSE update_current_info_display(s6)

\* a faulty confirm: the displayed time is recorded without stopping the Timer
\* first, so the recorded value is the one of the last display refresh
confirm_and_next_unstopped(s) ==
    IF s.current_test_case_index = -1 \/ s.sw_test_cases = <<>>
    THEN s
    ELSE IF s.current_test_case_index >= Len(s.sw_test_cases)
    THEN s
    ELSE IF s.current_iteration_index >= 5
    THEN move_to_next_test_case(s)
    ELSE record_iteration(s, FALSE)

\* a faulty confirm: the test for a full ledger is off by one
confirm_and_next_past_five(s) ==
    IF s.current_test_case_index = -1 \/ s.sw_test_cases = <<>>
    THEN s
    ELSE IF s.current_test_case_index >= Len(s.sw_test_cases)
    THEN s
    ELSE IF s.current_iteration_index > 5
    THEN move_to_next_test_case(s)
    ELSE record_iteration(s, TRUE)

confirm_and_next(s) ==
    IF s.current_test_case_index = -1 \/ s.sw_test_cases = <<>>
    THEN s
    ELSE IF s.current_test_case_index >= Len(s.sw_test_cases)
    THEN s
    ELSE IF s.current_iteration_index >= 5
    THEN move_to_next_test_case(s)
    ELSE LET current_tc == At(s.sw_test_cases, s.current_test_case_index)
             s1 == stop_timer(s)
             iteration_time == s1.elapsed_ms
             iteration_notes == Strip(s1.iteration_notes_input)
             s2 == PadIterations(s1, current_tc, s1.current_iteration_index)
             it == At(s2.tcs[current_tc].iterations, s2.current_iteration_index)
             s3 == [s2 EXCEPT !.iters[it] = [time_ms |-> Some(iteration_time),
                                             notes |-> iteration_notes,
                                             skipped |-> FALSE]]
             s4 == emit_iteration_saved(s3, s3.current_test_case_index,
                                        s3.current_iteration_index, it)
             s5 == reset_timer(s4)
             s6 == [s5 EXCEPT !.iteration_notes_input = ""]
             s7 == [s6 EXCEPT !.current_iteration_index = @ + 1]
         IN IF s7.current_iteration_index >= 5
            THEN move_to_next_test_case(s7)
            ELSE update_current_info_display(s7)

\* The statements of a recording confirm_and_next in program order.  "write"
\* stops the Timer and writes the slot; "table" and "flag" are the slots of
\* iteration_saved in the order connect_signals connected them
\* (update_iteration_data, _set_unsaved_changes); "reset" is reset_timer and
\* the clearing of the notes input; "advance" is the increment of the
\* iteration index with the move to the next test case or the display.
confirm_program_flag_first == <<"write", "flag", "table", "reset", "advance">>

confirm_program == <<"write", "table", "flag", "reset", "advance">>

\* the Iteration object of the slot that the running confirm records
CurrentIteration(s) ==
    At(s.tcs[At(s.sw_test_cases, s.current_test_case_index)].iterations,
       s.current_iteration_index)

confirm_statement(s, statement) ==
    CASE statement = "write" ->
           LET current_tc == At(s.sw_test_cases, s.current_test_case_index)
               s1 == stop_timer(s)
               s2 == PadIterations(s1, current_tc, s1.current_iteration_index)
               it == At(s2.tcs[current_tc].iterations, s2.current_iteration_index)
           IN [s2 EXCEPT !.iters[it] = [time_ms |-> Some(s1.elapsed_ms),
                                        notes |-> Strip(s1.iteration_notes_input),
                                        skipped |-> FALSE]]
      [] statement = "table" ->
           update_iteration_data(s, s.current_test_case_index,
                                 s.current_iteration_index, CurrentIteration(s))
      [] statement = "flag" -> set_unsaved_changes(s)
      [] statement = "reset" -> [reset_timer(s) EXCEPT !.iteration_notes_input = ""]
      [] statement = "advance" ->
           LET s1 == [s EXCEPT !.current_iteration_index = @ + 1]
           IN IF s1.current_iteration_index >= 5
              THEN move_to_next_test_case(s1)
              ELSE update_current_info_display(s1)

RECURSIVE run_confirm(_, _)
\* the statements from the one at position (0-based) to the last, in a row
run_confirm(s, position) ==
    IF position >= Len(confirm_program) THEN s
    ELSE run_confirm(confirm_statement(s, confirm_program[position + 1]),
                     position + 1)

---------------------------------------------------------------------------
(* Persisted data: TestCase dictionaries of session and template files *)

Recorded(t) == [time_ms |-> Some(t), notes |-> "", skipped |-> FALSE]

\* a TestCase dictionary: "iterations" is the list of Iteration dictionaries
TestCaseDict(name, priority, baseline_ms, iterations) ==
    [name |-> name, steps |-> <<>>, baseline_ms |-> baseline_ms,
     priority |-> priority, iterations |-> iterations,
     test_notes |-> "", quip_url |-> ""]

\* the test cases found in the files of the model, in file order: two equal
\* test cases with no iteration saved, one with four entries, all filled, one
\* with the ledger [2, None, 3, None, None], one with seven filled entries
StoredTestCases ==
    << TestCaseDict("A", "P0", Some(1), <<>>),
       TestCaseDict("A", "P0", Some(1), <<>>),
       TestCaseDict("B", "P1", None,
                    <<Recorded(2), Recorded(2), Recorded(2), Recorded(2)>>),
       TestCaseDict("C", "P0", Some(1),
                    <<Recorded(2), Iteration, Recorded(3), Iteration, Iteration>>),
       TestCaseDict("D", "P1", None,
                    <<Recorded(2), Recorded(2), Recorded(2), Recorded(2), Recorded(2),
                      Recorded(3), Recorded(3)>>) >>

\* the "test_cases" arrays of the session files: the runs of MaxTC consecutive
\* stored test cases (fewer at the end of the list)
SessionFileChoices ==
    {SubSeq(StoredTestCases, i,
            IF i + MaxTC - 1 <= Len(StoredTestCases)
            THEN i + MaxTC - 1 ELSE Len(StoredTestCases)) : i \in 1..3}

\* the "priority_filter" values of the session files
StoredFilters == {"All"}

\* load_test_case_template(priority): the template files of the model
Template(priority) ==
    CASE priority = "P0" -> <<TestCaseDict("A", "P0", Some(1), <<>>),
                              TestCaseDict("A", "P0", Some(1), <<>>)>>
      [] priority = "P1" -> <<TestCaseDict("B", "P1", None, <<>>)>>
      [] OTHER -> <<>>

\* dict.get(key, default); a dict is a function on the keys it has
Get(data, key, default) == IF key \in DOMAIN data THEN data[key] ELSE default

\* the dict {}
EmptyDict == <<>>

\* Iteration.from_dict: Iteration(**data), an absent key takes its default
Iteration_from_dict(data) ==
    [time_ms |-> Get(data, "time_ms", Iteration.time_ms),
     notes |-> Get(data, "notes", Iteration.notes),
     skipped |-> Get(data, "skipped", Iteration.skipped)]

\* TestCase(**data) for a dict whose "iterations" are the objects given
TestCaseOf(data, iterations) ==
    [name |-> data.name,
     steps |-> Get(data, "steps", <<>>),
     baseline_ms |-> Get(data, "baseline_ms", None),
     priority |-> Get(data, "priority", "P3"),
     iterations |-> iterations,
     test_notes |-> Get(data, "test_notes", ""),
     quip_url |-> Get(data, "quip_url", "")]

\* data.get('iterations', [{} for _ in range(5)])
GivenIterations(data) ==
    Get(data, "iterations", [i \in 1..NumIterations |-> EmptyDict])

\* a from_dict that keeps every entry it is given
TestCase_from_dict_untrimmed(data) ==
    LET given == GivenIterations(data)
        made == [i \in 1..Len(given) |-> Iteration_from_dict(given[i])]
    IN TestCaseOf(data,
                  made \o [i \in 1..(NumIterations - Len(made)) |-> Iteration])

\* a from_dict that adds no entry to the ones it is given
TestCase_from_dict_unpadded(data) ==
    LET given == GivenIterations(data)
        made == [i \in 1..Len(given) |-> Iteration_from_dict(given[i])]
        last == IF Len(made) < NumIterations THEN Len(made) ELSE NumIterations
    IN TestCaseOf(data, SubSeq(made, 1, last))

\* TestCase.from_dict: the ledger padded with Iteration() or cut to 5
TestCase_from_dict(data) ==
    LET given == GivenIterations(data)
        made == [i \in 1..Len(given) |-> Iteration_from_dict(given[i])]
        padded == made \o [i \in 1..(NumIterations - Len(made)) |-> Iteration]
    IN TestCaseOf(data, SubSeq(padded, 1, NumIterations))

\* the keys TestCase(**data) accepts, and the one it requires
TestCaseKeys ==
    {"name", "steps", "baseline_ms", "priority", "iterations", "test_notes",
     "quip_url"}

\* TestCase.from_dict raises TypeError
TestCase_from_dict_raises(data) ==
    \/ "name" \notin DOMAIN data
    \/ ~(DOMAIN data \subseteq TestCaseKeys)

\* Session.from_dict raises what TestCase.from_dict raises
Session_from_dict_raises(data) ==
    \E k \in 1..Len(Get(data, "test_cases", <<>>)) :
        TestCase_from_dict_raises(data.test_cases[k])

\* Iteration.to_dict: self.__dict__
Iteration_to_dict(iteration) ==
    [time_ms |-> iteration.time_ms, notes |-> iteration.notes,
     skipped |-> iteration.skipped]

\* a to_dict that leaves the baseline out
TestCase_to_dict_without_baseline(tc) ==
    [name |-> tc.name,
     steps |-> tc.steps,
     priority |-> tc.priority,
     iterations |-> [i \in 1..Len(tc.iterations) |->
                       Iteration_to_dict(tc.iterations[i])],
     test_notes |-> tc.test_notes,
     quip_url |-> tc.quip_url]

\* TestCase.to_dict
TestCase_to_dict(tc) ==
    [name |-> tc.name,
     steps |-> tc.steps,
     baseline_ms |-> tc.baseline_ms,
     priority |-> tc.priority,
     iterations |-> [i \in 1..Len(tc.iterations) |->
                       Iteration_to_dict(tc.iterations[i])],
     test_notes |-> tc.test_notes,
     quip_url |-> tc.quip_url]

\* Session.to_dict
Session_to_dict(session) ==
    [week |-> session.week,
     device |-> session.device,
     build |-> session.build,
     priority_filter |-> session.priority_filter,
     test_cases |-> [k \in 1..Len(session.test_cases) |->
                       TestCase_to_dict(session.test_cases[k])],
     start_time |-> session.start_time,
     end_time |-> session.end_time,
     global_notes |-> session.global_notes]

\* Session.from_dict: Session(**data); the default start_time is the time of
\* the call
Session_from_dict(data) ==
    LET given == Get(data, "test_cases", <<>>)
    IN [week |-> Get(data, "week", ""),
        device |-> Get(data, "device", ""),
        build |-> Get(data, "build", ""),
        priority_filter |-> Get(data, "priority_filter", "All"),
        test_cases |-> [k \in 1..Len(given) |-> TestCase_from_dict(given[k])],
        start_time |-> Get(data, "start_time", "now"),
        end_time |-> Get(data, "end_time", None),
        global_notes |-> Get(data, "global_notes", "")]

(* JSON.  A JSON text is the value it denotes, tagged with its JSON type.
   json.dump chooses the type from the Python type of the value, json.load
   the Python type from the JSON type; here both follow the types of the
   fields, because an Optional field of the model holds None or Some(v). *)

JsonNull == [json |-> "null"]
JsonBool(v) == IF v THEN [json |-> "true"] ELSE [json |-> "false"]
JsonNumber(v) == [json |-> "number", value |-> v]
JsonString(v) == [json |-> "string", value |-> v]
\* the array of texts already encoded
JsonArray(texts) == [json |-> "array", value |-> texts]
JsonObject(members) == [json |-> "object", value |-> members]
JsonOptionalNumber(v) == IF v = None THEN JsonNull ELSE JsonNumber(v[1])
JsonOptionalString(v) == IF v = None THEN JsonNull ELSE JsonString(v[1])

PyBool(j) == j.json = "true"
PyValue(j) == j.value
PyOptional(j) == IF j.json = "null" THEN None ELSE Some(PyValue(j))

\* json.dump of the dict of an Iteration, a TestCase, a Session
json_dump_iteration(data) ==
    JsonObject([time_ms |-> JsonOptionalNumber(data.time_ms),
                notes |-> JsonString(data.notes),
                skipped |-> JsonBool(data.skipped)])

json_dump_test_case(data) ==
    JsonObject([key \in DOMAIN data |->
        CASE key = "steps" ->
                JsonArray([i \in 1..Len(data[key]) |-> JsonString(data[key][i])])
          [] key = "baseline_ms" -> JsonOptionalNumber(data[key])
          [] key = "iterations" ->
                JsonArray([i \in 1..Len(data[key]) |->
                             json_dump_iteration(data[key][i])])
          [] OTHER -> JsonString(data[key])])

json_dump_session(data) ==
    JsonObject([key \in DOMAIN data |->
        CASE key = "test_cases" ->
                JsonArray([k \in 1..Len(data[key]) |->
                             json_dump_test_case(data[key][k])])
          [] key = "end_time" -> JsonOptionalString(data[key])
          [] OTHER -> JsonString(data[key])])

\* json.load of the text of an Iteration, a TestCase, a Session
json_load_iteration(j) ==
    [time_ms |-> PyOptional(j.value.time_ms),
     notes |-> PyValue(j.value.notes),
     skipped |-> PyBool(j.value.skipped)]

json_load_test_case(j) ==
    [key \in DOMAIN j.value |->
        CASE key = "steps" ->
                [i \in 1..Len(j.value[key].value) |->
                    PyValue(j.value[key].value[i])]
          [] key = "baseline_ms" -> PyOptional(j.value[key])
          [] key = "iterations" ->
                [i \in 1..Len(j.value[key].value) |->
                    json_load_iteration(j.value[key].value[i])]
          [] OTHER -> PyValue(j.value[key])]

json_load_session(j) ==
    [key \in DOMAIN j.value |->
        CASE key = "test_cases" ->
                [k \in 1..Len(j.value[key].value) |->
                    json_load_test_case(j.value[key].value[k])]
          [] key = "end_time" -> PyOptional(j.value[key])
          [] OTHER -> PyValue(j.value[key])]

\* a path given to load_session: whether a file exists there, whether its
\* text is JSON, and the dict that json.load makes of it
SessionFile(exists, is_json, data) ==
    [exists |-> exists, is_json |-> is_json, data |-> data]

\* the files that Session.from_dict accepts
GoodSessionFiles ==
    {SessionFile(TRUE, TRUE,
                 [priority_filter |-> priority_filter, test_cases |-> test_cases]) :
        priority_filter \in StoredFilters, test_cases \in SessionFileChoices}

\* a path with no file, a file that is not JSON, and a JSON file whose one
\* test case has no "name"
BadSessionFiles ==
    {SessionFile(FALSE, FALSE, EmptyDict),
     SessionFile(TRUE, FALSE, EmptyDict),
     SessionFile(TRUE, TRUE, [priority_filter |-> "All",
                              test_cases |-> <<[priority |-> "P0"]>>])}

\* file_manager.load_session: None for a path with no file and for every
\* exception of json.load and Session.from_dict, else <<the Session>>
file_manager_load_session(file) ==
    IF ~file.exists THEN None
    ELSE IF ~file.is_json THEN None
    ELSE IF Session_from_dict_raises(file.data) THEN None
    ELSE Some(Session_from_dict(file.data))


\* the objects of a list of TestCase values, created on emptied heaps: test
\* case k at slot k, its Iterations at the next five free references
WithTestCases(s, values) ==
    LET n == Len(values)
        cellsOf(k) == [i \in 1..Len(values[k].iterations) |->
                          NumIterations * (k - 1) + i]
    IN [s EXCEPT
          !.tcs = [t \in TCIds |->
                     IF t \in 1..n
                     THEN [values[t] EXCEPT !.iterations = cellsOf(t)]
                     ELSE NoTestCase],
          !.iters = [c \in CellIds |->
                       LET k == ((c - 1) \div NumIterations) + 1
                           i == ((c - 1) % NumIterations) + 1
                       IN IF k \in 1..n /\ i <= Len(values[k].iterations)
                          THEN values[k].iterations[i]
                          ELSE Iteration]]

\* Session(priority_filter=..., test_cases=[...]) over the objects 1..n
SessionOf(priority_filter, n) ==
    Some([priority_filter |-> priority_filter,
          test_cases |-> [k \in 1..n |-> k],
          global_notes |-> ""])

---------------------------------------------------------------------------
(* MainWindow: new project and load *)

\* the test cases a new project takes from the templates
NewProjectTestCases(priority_filter) ==
    IF priority_filter # "All"
    THEN Template(priority_filter)
    ELSE Template("P0") \o Template("P1") \o Template("P2")
            \o Template("P3") \o Template("750")

\* the path that the user picks in the file dialogs
SessionPath == "session.json"

\* reply: the answer to the unsaved-changes question; accepted: the popup's result
new_project(s, reply, accepted, priority_filter) ==
    IF s.unsaved_changes /\ reply = "Cancel"
    THEN s
    ELSE IF ~accepted
    THEN s
    ELSE LET dicts == NewProjectTestCases(priority_filter)
             values == [k \in 1..Len(dicts) |-> TestCase_from_dict(dicts[k])]
             new_session == SessionOf(priority_filter, Len(values))
             s1 == [WithTestCases(s, values) EXCEPT
                       !.current_session = new_session,
                       !.current_session_filepath = None]
             s2 == clear_unsaved_changes(s1)
         IN update_session_info_display(load_session_data_into_widgets(s2, new_session))

\* MainWindow.load_session of the file the user chose; loaded is what
\* file_manager.load_session returned
load_session(s, reply, file) ==
    IF s.unsaved_changes /\ reply = "Cancel"
    THEN s
    ELSE LET loaded == file_manager_load_session(file)
         IN IF loaded # None
            THEN LET values == loaded[1].test_cases
                     loaded_session ==
                         [SessionOf(loaded[1].priority_filter, Len(values)) EXCEPT
                             ![1].global_notes = loaded[1].global_notes]
                     s1 == [WithTestCases(s, values) EXCEPT
                               !.current_session = loaded_session,
                               !.current_session_filepath = Some(SessionPath)]
                     s2 == clear_unsaved_changes(s1)
                 IN update_session_info_display(
                        load_session_data_into_widgets(s2, loaded_session))
            ELSE LET s1 == [s EXCEPT !.current_session = None,
                                     !.current_session_filepath = None]
                     s2 == clear_unsaved_changes(s1)
                 IN load_session_data_into_widgets(s2, None)

---------------------------------------------------------------------------
(* NotesSearchWidget: the global notes editor and its debounce timer.
   The widget is modelled as its constructor is written to leave it, the
   editor's textChanged connected to the start of the single-shot timer
   (as the source stands, connect_signals runs before _notes_timer is
   created and the module names pyqtSlot without importing it). *)

\* the texts a user leaves in the global notes editor
GlobalNotesTexts == {"", "n"}

\* the user edits the text: textChanged (re)starts the 500 ms timer
textChanged(s, text) ==
    [s EXCEPT !.global_notes_edit = text, !.notes_timer = TRUE]

\* MainWindow._handle_global_notes_changed
handle_global_notes_changed(s, notes_text) ==
    IF s.current_session # None
    THEN [s EXCEPT !.current_session[1].global_notes = notes_text]
    ELSE s

\* global_notes_changed.emit(text): _handle_global_notes_changed, then
\* _set_unsaved_changes
emit_global_notes_changed(s, notes_text) ==
    set_unsaved_changes(handle_global_notes_changed(s, notes_text))

\* the timer's timeout: _emit_notes_changed
emit_notes_changed(s) ==
    emit_global_notes_changed([s EXCEPT !.notes_timer = FALSE], s.global_notes_edit)

---------------------------------------------------------------------------
(* MainWindow: save and close *)

\* Session.to_dict of the current session, the fields that the model keeps
SessionDict(s) ==
    [priority_filter |-> s.current_session[1].priority_filter,
     test_cases |-> [k \in 1..Len(SessionTestCases(s)) |->
                       TestCase_to_dict(TestCaseValue(s, SessionTestCases(s)[k]))],
     global_notes |-> s.current_session[1].global_notes]

\* file_manager.save_session: json.dump of session.to_dict() into the file
file_manager_save_session(s) ==
    [s EXCEPT !.session_file = Some(SessionDict(s))]

\* MainWindow.save_session.  filepath: the answer of the file dialog, None
\* when the user cancels it; io_ok: open() and json.dump raise nothing.
\* The try block catches every exception of its statements, the NameError
\* of update_session_info_display included
save_session(s, filepath, io_ok) ==
    IF s.current_session = None
    THEN [s EXCEPT !.returned = Some(FALSE)]
    ELSE IF s.current_session_filepath = None /\ filepath = None
    THEN [s EXCEPT !.returned = Some(FALSE)]
    ELSE LET s1 == IF s.current_session_filepath = None
                   THEN [s EXCEPT !.current_session_filepath = filepath]
                   ELSE s
         IN IF ~io_ok
            THEN [s1 EXCEPT !.returned = Some(FALSE)]
            ELSE LET s2 == clear_unsaved_changes(file_manager_save_session(s1))
                     s3 == update_session_info_display(s2)
                 IN IF s3.raised # None
                    THEN [s3 EXCEPT !.raised = None, !.returned = Some(FALSE)]
                    ELSE [s3 EXCEPT !.returned = Some(TRUE)]

\* event.accept(): the window closes
accept(s) == [s EXCEPT !.window_open = FALSE]

\* a closeEvent that accepts whatever save_session returns
closeEvent_accepting(s, reply, filepath, io_ok) ==
    IF s.unsaved_changes
    THEN IF reply = "Save"
         THEN accept(save_session(s, filepath, io_ok))
         ELSE IF reply = "Discard" THEN accept(s) ELSE s
    ELSE accept(s)

\* MainWindow.closeEvent.  reply: the answer to the unsaved-changes question
closeEvent(s, reply, filepath, io_ok) ==
    IF s.unsaved_changes
    THEN IF reply = "Save"
         THEN LET s1 == save_session(s, filepath, io_ok)
              IN IF s1.returned = Some(TRUE) THEN accept(s1) ELSE s1
         ELSE IF reply = "Discard" THEN accept(s) ELSE s
    ELSE accept(s)

---------------------------------------------------------------------------
(* TestTableWidget: manual edits of the Notes and Baseline cells *)

\* the texts a user types into a cell
CellTexts == {"", "n", "2", "-1", "abc"}

\* float(text) on the texts of the model; None stands for ValueError
ParseFloat(text) ==
    CASE text = "2" -> Some(2)
      [] text = "-1" -> Some(0 - 1)
      [] OTHER -> None

EndsWithS(text) == text \in {"2s", "s"}

\* text[:-1] on the texts that end with "s"
DropLast(text) == IF text = "2s" THEN "2" ELSE ""

\* the handler emits between its blockSignals(True) and blockSignals(False)
handle_cell_changed(s, row, column, text) ==
    LET new_value == Strip(text)
        signals_blocked == TRUE
    IN IF s.current_session = None \/ row < 0 \/ row >= Len(s.filtered_test_cases)
       THEN s
       ELSE LET tc_in_filtered_list == At(s.filtered_test_cases, row)
                original_row_index == ListIndex(s, SessionTestCases(s), tc_in_filtered_list)
            IN IF original_row_index = -1
               THEN s
               ELSE LET tc == At(SessionTestCases(s), original_row_index)
                        baseline(ms_value) ==
                            emit_cell_data_changed(
                                update_row_calculations_of_row(
                                    [s EXCEPT !.tcs[tc].baseline_ms = ms_value], row),
                                signals_blocked)
                    IN IF column = "Notes"
                       THEN emit_cell_data_changed(
                                [s EXCEPT !.tcs[tc].test_notes = new_value],
                                signals_blocked)
                       ELSE IF column = "Baseline"
                       THEN IF EndsWithS(new_value)
                            THEN IF ParseFloat(DropLast(new_value)) = None
                                 THEN s
                                 ELSE baseline(Some(ParseFloat(DropLast(new_value))[1] * 1000))
                            ELSE IF new_value # ""
                            THEN IF ParseFloat(new_value) = None
                                 THEN s
                                 ELSE baseline(ParseFloat(new_value))
                            ELSE baseline(None)
                       ELSE s

---------------------------------------------------------------------------
(* The state machine: one action per user event or timer event *)

\* the texts a user types into the iteration notes input
NotesTexts == {"", " a "}

\* the next state is the record r, unreachable objects forgotten; position is
\* the number of statements that the running confirm has executed
BecomesAt(r, position) ==
    \E c \in {Collect(r)} :
       /\ is_running' = c.is_running
       /\ elapsed_ms' = c.elapsed_ms
       /\ elapsed_timer' = c.elapsed_timer
       /\ checked' = c.checked
       /\ reset_enabled' = c.reset_enabled
       /\ current_test_case_index' = c.current_test_case_index
       /\ current_iteration_index' = c.current_iteration_index
       /\ sw_test_cases' = c.sw_test_cases
       /\ iteration_notes_input' = c.iteration_notes_input
       /\ priority_filter_combo' = c.priority_filter_combo
       /\ current_session' = c.current_session
       /\ filtered_test_cases' = c.filtered_test_cases
       /\ current_filter' = c.current_filter
       /\ selected_row' = c.selected_row
       /\ unsaved_changes' = c.unsaved_changes
       /\ current_session_filepath' = c.current_session_filepath
       /\ global_notes_edit' = c.global_notes_edit
       /\ notes_timer' = c.notes_timer
       /\ session_file' = c.session_file
       /\ window_open' = c.window_open
       /\ items' = c.items
       /\ tcs' = c.tcs
       /\ iters' = c.iters
       /\ raised' = c.raised
       /\ pc' = position
       /\ UNCHANGED <<calc, tracks_items>>

\* a handler that runs from its first statement to its last
Becomes(r) == BecomesAt(r, pc)

\* the widgets as their constructors leave them; the project popup that
\* MainWindow.__init__ opens last is answered by the first NewProject step
AppInit ==
    /\ is_running = FALSE
    /\ elapsed_ms = 0
    /\ elapsed_timer = 0
    /\ checked = FALSE
    /\ reset_enabled = FALSE
    /\ current_test_case_index = -1
    /\ current_iteration_index = 0
    /\ sw_test_cases = <<>>
    /\ iteration_notes_input = ""
    /\ priority_filter_combo = "All"
    /\ current_session = None
    /\ filtered_test_cases = <<>>
    /\ current_filter = "All"
    /\ selected_row = -1
    /\ unsaved_changes = FALSE
    /\ current_session_filepath = None
    /\ global_notes_edit = ""
    /\ notes_timer = FALSE
    /\ session_file = None
    /\ window_open = TRUE
    /\ items = <<>>
    /\ tcs = [t \in TCIds |-> NoTestCase]
    /\ iters = [c \in CellIds |-> Iteration]
    /\ pc = 0
    /\ raised = None
    /\ changes = 0
    /\ completed = FALSE
    /\ last_op = "other"

\* no function is applied on its own while the application runs
NoCalc == [fn |-> "none"]

\* the items of the table are left out: no row is ever painted
Init ==
    /\ AppInit
    /\ calc = NoCalc
    /\ tracks_items = FALSE

\* the items of the table are part of the state
InitTable ==
    /\ AppInit
    /\ calc = NoCalc
    /\ tracks_items = TRUE

\* a click on the Start/Stop button, or the spacebar: the button toggles
ToggleStartStop ==
    /\ Becomes(toggle_timer([State EXCEPT !.checked = ~checked], ~checked))
    /\ last_op' = "toggle"
    /\ UNCHANGED <<changes, completed>>

\* the elapsed timer advances while a measurement runs
TimePasses ==
    /\ is_running
    /\ elapsed_timer < MaxMs
    /\ Becomes([State EXCEPT !.elapsed_timer = @ + 1])
    /\ last_op' = "other"
    /\ UNCHANGED <<changes, completed>>

\* the 10 ms QTimer of the display fires
Tick ==
    /\ is_running
    /\ Becomes(update_time(State))
    /\ last_op' = "other"
    /\ UNCHANGED <<changes, completed>>

ClickReset ==
    /\ reset_enabled
    /\ Becomes(reset_timer(State))
    /\ last_op' = "reset"
    /\ UNCHANGED <<changes, completed>>

\* whether a click on Confirm & Next records a timing: none of the early
\* returns of confirm_and_next is taken
Records(s) ==
    /\ s.current_test_case_index # -1
    /\ s.sw_test_cases # <<>>
    /\ s.current_test_case_index < Len(s.sw_test_cases)
    /\ s.current_iteration_index < 5

ConfirmWithin(max) ==
    /\ Records(State) => changes < max
    /\ Becomes(confirm_and_next(State))
    /\ last_op' = "confirm"
    /\ changes' = IF Records(State) THEN changes + 1 ELSE changes
    /\ completed' = IF Records(State) /\ current_iteration_index = 4
                    THEN TRUE ELSE completed

ClickConfirm == ConfirmWithin(MaxChanges)

TypeNotes ==
    \E text \in NotesTexts :
        /\ text # iteration_notes_input
        /\ Becomes([State EXCEPT !.iteration_notes_input = text])
        /\ last_op' = "other"
        /\ UNCHANGED <<changes, completed>>

\* the user picks another entry of the priority filter combo box
ChooseFilter ==
    \E k \in 1..NumFilterChoices :
        /\ PriorityFilters[k] # priority_filter_combo
        /\ Becomes(setCurrentText(State, PriorityFilters[k]))
        /\ last_op' = "filter"
        /\ completed' = IF selected_row' >= 0 THEN FALSE ELSE completed
        /\ UNCHANGED changes

\* the user clicks a row of the table that is not the selected one
ClickRow ==
    \E row \in 0..(Len(filtered_test_cases) - 1) :
        /\ row # selected_row
        /\ Becomes(selectRow(State, row))
        /\ last_op' = "other"
        /\ completed' = FALSE
        /\ UNCHANGED changes

\* the user Ctrl-clicks the selected row: the selection is cleared
ClearSelection ==
    /\ selected_row # -1
    /\ Becomes(handle_selection_change([State EXCEPT !.selected_row = -1]))
    /\ last_op' = "other"
    /\ UNCHANGED <<changes, completed>>

\* the user replaces the text of a cell of the Notes or the Baseline column
EditCellAt(row, column, text) ==
    /\ changes < MaxTableChanges
    /\ Becomes(handle_cell_changed(State, row, column, text))
    /\ last_op' = "other"
    /\ changes' = changes + 1
    /\ UNCHANGED completed

EditCell ==
    \E row \in 0..(Len(filtered_test_cases) - 1), column \in {"Notes", "Baseline"},
       text \in CellTexts :
        EditCellAt(row, column, text)

\* New Project with the popup accepted (a rejected popup changes nothing)
NewProject ==
    \E reply \in {"Ok", "Cancel"}, k \in 1..NumFilterChoices :
        /\ unsaved_changes \/ reply = "Ok"
        /\ Becomes(new_project(State, reply, TRUE, PriorityFilters[k]))
        /\ last_op' = IF unsaved_changes /\ reply = "Cancel" THEN last_op ELSE "load"
        /\ changes' = IF unsaved_changes /\ reply = "Cancel" THEN changes ELSE 0
        /\ completed' = IF unsaved_changes /\ reply = "Cancel" THEN completed ELSE FALSE

\* Load Session of the file at a path the user chose; a failed load creates
\* no objects, so the objects the stopwatch still holds keep their changes
LoadSession ==
    \E reply \in {"Ok", "Cancel"}, file \in GoodSessionFiles \cup BadSessionFiles :
        LET kept == unsaved_changes /\ reply = "Cancel"
            failed == file \in BadSessionFiles
        IN /\ unsaved_changes \/ reply = "Ok"
           /\ Becomes(load_session(State, reply, file))
           /\ last_op' = IF kept THEN last_op
                         ELSE IF failed THEN "load failed" ELSE "load"
           /\ changes' = IF kept \/ failed THEN changes ELSE 0
           /\ completed' = IF kept \/ failed THEN completed ELSE FALSE

Next ==
    \/ ToggleStartStop
    \/ TimePasses
    \/ Tick
    \/ ClickReset
    \/ ClickConfirm
    \/ TypeNotes
    \/ ChooseFilter
    \/ ClickRow
    \/ ClearSelection
    \/ NewProject
    \/ LoadSession

Spec == Init /\ [][Next]_vars

\* the table and the recording alone: the Timer stays stopped at zero and the
\* notes input is not typed into
ClickConfirmTable == ConfirmWithin(MaxTableChanges)

NextTable ==
    \/ ClickConfirmTable
    \/ ChooseFilter
    \/ ClickRow
    \/ ClearSelection
    \/ EditCell
    \/ NewProject
    \/ LoadSession

SpecTable == InitTable /\ [][NextTable]_vars

\* one statement of a recording confirm; the click itself executes the first
ConfirmStatement ==
    /\ pc = 0 => Records(State) /\ changes < MaxTableChanges
    /\ BecomesAt(confirm_statement(State, confirm_program[pc + 1]),
                 (pc + 1) % Len(confirm_program))
    /\ last_op' = "confirm"
    /\ changes' = IF pc = 0 THEN changes + 1 ELSE changes
    /\ completed' = IF pc = 0 /\ current_iteration_index = 4 THEN TRUE ELSE completed

\* a click on Confirm & Next that takes one of the early returns
ConfirmRejected ==
    /\ pc = 0
    /\ ~Records(State)
    /\ Becomes(confirm_and_next(State))
    /\ last_op' = "confirm"
    /\ UNCHANGED <<changes, completed>>

\* the GUI thread handles one event at a time: no other handler starts while
\* a confirm runs
Idle == pc = 0

NextConfirm ==
    \/ ConfirmStatement
    \/ ConfirmRejected
    \/ Idle /\ ToggleStartStop
    \/ Idle /\ TimePasses
    \/ Idle /\ TypeNotes
    \/ Idle /\ ClickRow
    \/ Idle /\ NewProject

\* a confirm statement by statement
SpecConfirm == InitTable /\ [][NextConfirm]_vars

NextRecording ==
    \/ NewProject
    \/ ClickRow
    \/ ClearSelection
    \/ ChooseFilter
    \/ ClickConfirmTable

\* selections, filter changes and confirms on the sessions of new projects,
\* whose ledgers start empty
SpecRecording == InitTable /\ [][NextRecording]_vars

\* the user leaves another text in the global notes editor
TypeGlobalNotes ==
    \E text \in GlobalNotesTexts :
        /\ text # global_notes_edit
        /\ Becomes(textChanged(State, text))
        /\ last_op' = "other"
        /\ UNCHANGED <<changes, completed>>

\* 500 ms have passed since the last edit of the global notes
NotesTimeout ==
    /\ notes_timer
    /\ Becomes(emit_notes_changed(State))
    /\ last_op' = "other"
    /\ UNCHANGED <<changes, completed>>

\* the answers of the Save dialog: cancelled, or a path
SaveDialogAnswers == {None, Some(SessionPath)}

\* the kind of a save: the dialog cancelled, the file not written, or written
SaveOutcome(s, filepath, io_ok) ==
    IF s.current_session = None \/ (s.current_session_filepath = None /\ filepath = None)
    THEN "save cancelled"
    ELSE IF io_ok THEN "saved" ELSE "save failed"

\* Save Session from the toolbar
SaveSession ==
    \E filepath \in SaveDialogAnswers, io_ok \in BOOLEAN :
        /\ Becomes(save_session(State, filepath, io_ok))
        /\ last_op' = SaveOutcome(State, filepath, io_ok)
        /\ UNCHANGED <<changes, completed>>

\* the user closes the main window
CloseWindow ==
    \E reply \in {"Save", "Discard", "Cancel"}, filepath \in SaveDialogAnswers,
       io_ok \in BOOLEAN :
        /\ Becomes(closeEvent(State, reply, filepath, io_ok))
        /\ last_op' = IF ~unsaved_changes THEN "close"
                      ELSE IF reply = "Save"
                      THEN "close, " \o SaveOutcome(State, filepath, io_ok)
                      ELSE IF reply = "Discard" THEN "close, discard"
                      ELSE "close, cancel"
        /\ UNCHANGED <<changes, completed>>

\* the window is open: a closed window takes no event
Open == window_open

\* the user types a number into the Notes or the Baseline cell of the first row
EditFirstRow ==
    \E column \in {"Notes", "Baseline"} :
        /\ filtered_test_cases # <<>>
        /\ changes < MaxSessionChanges
        /\ EditCellAt(0, column, "2")

NextSession ==
    \/ Open /\ NewProject
    \/ Open /\ LoadSession
    \/ Open /\ ConfirmWithin(MaxSessionChanges)
    \/ Open /\ EditFirstRow
    \/ Open /\ SaveSession
    \/ Open /\ CloseWindow

\* recordings and edits on a session that is saved and closed
SpecSession == Init /\ [][NextSession]_vars

NextNotes ==
    \/ Open /\ NewProject
    \/ Open /\ TypeGlobalNotes
    \/ Open /\ NotesTimeout
    \/ Open /\ SaveSession
    \/ Open /\ CloseWindow

\* global notes typed into the editor of a session that is saved and closed
SpecNotes == Init /\ [][NextNotes]_vars

---------------------------------------------------------------------------
(* timer_utils and the row colouring, applied on their own *)

\* longest list of iterations handed to calculate_average, and the number of
\* leading slots of a ledger that the row colouring finds filled in
MaxStatIters == 3

Skipped(t) == [time_ms |-> t, notes |-> "", skipped |-> TRUE]

\* the Iteration objects the statistics are applied to
StatIterations ==
    {Iteration, Skipped(None), Skipped(Some(14))}
        \cup {Recorded(t) : t \in {0, 10, 11, 12, 14}}

StatLists == UNION {[1..n -> StatIterations] : n \in 0..MaxStatIters}

\* what calc holds before and after a function is applied
CalcOf(fn, iterations, iteration_ms, baseline_ms, average_ms) ==
    [fn |-> fn, iterations |-> iterations, iteration_ms |-> iteration_ms,
     baseline_ms |-> baseline_ms, average_ms |-> average_ms,
     done |-> FALSE, result |-> None]

\* the times, baselines and averages calculate_spike is applied to: times
\* and baselines are whole, an average need not be
SpikeTimes == {None} \cup {Some(t) : t \in {-1, 0, 10, 12}}
SpikeBaselines == {None} \cup {Some(t) : t \in {-1, 0, 10}}
SpikeAverages == {None, Some(Num(0)), Some(Num(8)), Some(<<34, 3>>)}

\* the ledgers and baselines of the rows that are coloured: a ledger with
\* its first MaxStatIters slots drawn freely and the others empty
RowLedgers ==
    {l \o [i \in 1..(NumIterations - MaxStatIters) |-> Iteration] :
        l \in [1..MaxStatIters -> StatIterations]}
RowBaselines == {None, Some(0), Some(10)}

StatInputs ==
    {CalcOf("calculate_average", l, None, None, None) : l \in StatLists}
    \cup {CalcOf("calculate_spike", <<>>, t, b, a) :
              t \in SpikeTimes, b \in SpikeBaselines, a \in SpikeAverages}
    \cup {CalcOf("update_row_calculations", l, None, b, None) :
              l \in RowLedgers, b \in RowBaselines}

app_vars == <<is_running, elapsed_ms, elapsed_timer, checked, reset_enabled,
              current_test_case_index, current_iteration_index, sw_test_cases,
              iteration_notes_input, priority_filter_combo, current_session,
              filtered_test_cases, current_filter, selected_row,
              unsaved_changes, current_session_filepath, global_notes_edit,
              notes_timer, session_file, window_open,
              items, tracks_items, tcs, iters, pc, raised, changes,
              completed,
              last_op>>

InitStats ==
    /\ AppInit
    /\ tracks_items = FALSE
    /\ calc \in StatInputs

Applies(fn, result) ==
    /\ calc.fn = fn
    /\ ~calc.done
    /\ calc' = [calc EXCEPT !.done = TRUE, !.result = result]
    /\ UNCHANGED app_vars

CalculateAverage ==
    Applies("calculate_average", calculate_average(calc.iterations))

CalculateSpike ==
    Applies("calculate_spike",
            calculate_spike(OptNum(calc.iteration_ms), OptNum(calc.baseline_ms),
                            calc.average_ms))

UpdateRowCalculations ==
    Applies("update_row_calculations",
            update_row_calculations(
                TestCaseDict("A", "P0", calc.baseline_ms, calc.iterations)))

NextStats ==
    \/ CalculateAverage
    \/ CalculateSpike
    \/ UpdateRowCalculations

SpecStats == InitStats /\ [][NextStats]_vars

---------------------------------------------------------------------------
(* data_model: from_dict and to_dict, applied on their own *)

\* most entries of an "iterations" array handed to TestCase.from_dict
MaxEntries == 7

\* the Iteration dicts of the arrays: none of the keys, all of them, one
IterationDicts ==
    {EmptyDict,
     [time_ms |-> Some(2), notes |-> "n", skipped |-> FALSE],
     [skipped |-> TRUE]}

\* the TestCase dicts TestCase.from_dict is applied to: without the key
\* "iterations", and with an array of 0 to MaxEntries entries
TestCaseDicts ==
    {[name |-> "T", priority |-> "P0"]}
    \cup {[name |-> "T", priority |-> "P0", iterations |-> entries] :
             entries \in UNION {[1..n -> IterationDicts] : n \in 0..MaxEntries}}

DataCalcOf(fn, data) == [fn |-> fn, data |-> data, done |-> FALSE, result |-> None]

\* the TestCase objects of the Sessions that are saved and loaded: ledgers
\* of five, and one of four
SavedTestCases ==
    {TestCaseOf([name |-> "A", baseline_ms |-> Some(1), priority |-> "P0",
                 steps |-> <<"s">>],
                <<Recorded(2), Skipped(Some(3)), Iteration, Iteration, Iteration>>),
     TestCaseOf([name |-> "B", test_notes |-> "n"],
                <<Recorded(2), [Recorded(2) EXCEPT !.notes = "n"], Skipped(None),
                  Recorded(3), Recorded(2)>>),
     TestCaseOf([name |-> "C"], <<Recorded(2), Iteration, Iteration, Iteration>>)}

\* most TestCases of a Session that is saved and loaded
MaxSaved == 2

\* the Session objects that are saved and loaded
SavedSessions ==
    {[week |-> week, device |-> "d", build |-> "", priority_filter |-> filter,
      test_cases |-> test_cases, start_time |-> "t0", end_time |-> end_time,
      global_notes |-> notes] :
        week \in {"", "W1"}, filter \in {"All", "P0"},
        test_cases \in UNION {[1..n -> SavedTestCases] : n \in 0..MaxSaved},
        end_time \in {None, Some("t1")}, notes \in {"", "n"}}

DataInputs ==
    {DataCalcOf("TestCase.from_dict", data) : data \in TestCaseDicts}
    \cup {DataCalcOf("save and load", session) : session \in SavedSessions}

InitData ==
    /\ AppInit
    /\ tracks_items = FALSE
    /\ calc \in DataInputs

FromDict ==
    Applies("TestCase.from_dict", TestCase_from_dict(calc.data))

\* save_session followed by load_session: json.dump(session.to_dict(), f),
\* then Session.from_dict(json.load(f))
SaveAndLoad ==
    Applies("save and load",
            Session_from_dict(json_load_session(json_dump_session(Session_to_dict(calc.data)))))

NextData ==
    \/ FromDict
    \/ SaveAndLoad

SpecData == InitData /\ [][NextData]_vars

---------------------------------------------------------------------------
(* Properties *)

\* the stopwatch holds an active test case
Active ==
    /\ current_test_case_index # -1
    /\ sw_test_cases # <<>>
    /\ current_test_case_index < Len(sw_test_cases)

ActiveTestCase == At(sw_test_cases, current_test_case_index)

SessionList == SessionTestCases(State)

\* the ledger of test case t as a list of Iteration values, before and after a step
Ledger(t) == [i \in 1..Len(tcs[t].iterations) |-> iters[tcs[t].iterations[i]]]

LedgerAfter(t) == [i \in 1..Len(tcs'[t].iterations) |-> iters'[tcs'[t].iterations[i]]]

\* the value the Timer holds once stopped
FrozenElapsed == IF is_running THEN elapsed_timer ELSE elapsed_ms

\* the step is a click on Confirm & Next
ConfirmStep == last_op' = "confirm"

\* slot i (0-based) is the lowest empty slot of the ledger, 5 when none is empty
LowestEmpty(ledger, i) ==
    /\ i \in 0..Len(ledger)
    /\ \A j \in 1..i : ledger[j].time_ms # None
    /\ i < Len(ledger) => ledger[i + 1].time_ms = None

\* C1 as stated: a confirm with an active test case and iteration index i < 5
\* stops the Timer, writes [frozen elapsed value, the notes text, skipped
\* false] into iterations[i] of the active test case and adds one to the
\* iteration index.
C1_ConfirmAsStated ==
    [][(ConfirmStep /\ Active /\ current_iteration_index < 5) =>
          LET t == ActiveTestCase
              i == current_iteration_index
          IN /\ ~is_running'
             /\ LedgerAfter(t)[i + 1] = [time_ms |-> Some(FrozenElapsed),
                                         notes |-> iteration_notes_input,
                                         skipped |-> FALSE]
             /\ current_iteration_index' = i + 1]_vars

\* C1 amended: such a confirm stops the Timer and writes [frozen elapsed value,
\* the notes text stripped of surrounding whitespace, skipped false] into
\* iterations[i]; for i < 4 the iteration index becomes i + 1 and the test
\* case stays active, for i = 4 the stopwatch drops the active test case and
\* its iteration index returns to 0.
C1_ConfirmWrites ==
    [][(ConfirmStep /\ Active /\ current_iteration_index < 5) =>
          LET t == ActiveTestCase
              i == current_iteration_index
          IN /\ ~is_running'
             /\ LedgerAfter(t)[i + 1] = [time_ms |-> Some(FrozenElapsed),
                                         notes |-> Strip(iteration_notes_input),
                                         skipped |-> FALSE]
             /\ IF i < 4
                THEN /\ current_iteration_index' = i + 1
                     /\ current_test_case_index' = current_test_case_index
                ELSE /\ current_iteration_index' = 0
                     /\ current_test_case_index' = -1]_vars

\* a confirm has just recorded a measured time of 1 with the notes " a "
C1_Witness ==
    /\ last_op = "confirm"
    /\ Active
    /\ ~is_running
    /\ current_iteration_index \in 1..4
    /\ Ledger(ActiveTestCase)[current_iteration_index] =
          [time_ms |-> Some(1), notes |-> "a", skipped |-> FALSE]

\* C2: a confirm for an active test case of the Session changes at most one
\* slot of its ledger and leaves the ledger of every other TestCase of the
\* Session unchanged.
C2_OtherLedgersKept ==
    [][(ConfirmStep /\ Active /\ ActiveTestCase \in Range(SessionList)) =>
          LET t == ActiveTestCase
          IN /\ Cardinality({i \in 1..Len(Ledger(t)) :
                                LedgerAfter(t)[i] # Ledger(t)[i]}) <= 1
             /\ \A u \in Range(SessionList) \ {t} : LedgerAfter(u) = Ledger(u)]_vars

\* C3: a confirm while the iteration index of the active test case is 5
\* changes no slot of any ledger.
C3_FullRejected ==
    [][(ConfirmStep /\ Active /\ current_iteration_index >= 5) =>
          \A t \in LiveTCs(State) :
              /\ tcs'[t].iterations = tcs[t].iterations
              /\ LedgerAfter(t) = Ledger(t)]_vars

\* a confirm was rejected: no timing was recorded in this session, the
\* selected test case has no empty slot and the stopwatch let go of it
C3_Witness ==
    /\ last_op = "confirm"
    /\ changes = 0
    /\ current_test_case_index = -1
    /\ selected_row >= 0
    /\ sw_test_cases = <<At(filtered_test_cases, selected_row)>>
    /\ \A i \in 1..5 : Ledger(At(filtered_test_cases, selected_row))[i].time_ms # None

\* C4: a step that selects a test case (a click on another row, a filter
\* change or a load that selects the first row) makes it the active test
\* case with the iteration index at its lowest empty slot, 5 when it has none.
C4_ResumeAtFirstEmpty ==
    [][((last_op' \in {"filter", "load"} \/ selected_row' # selected_row)
            /\ selected_row' >= 0) =>
          LET t == At(filtered_test_cases', selected_row')
          IN /\ sw_test_cases' = <<t>>
             /\ current_test_case_index' # -1
             /\ LowestEmpty(LedgerAfter(t), current_iteration_index')]_vars

\* the test case with the ledger [2, None, 3, None, None] was selected by a
\* click on its row and the stopwatch resumes at index 1
C4_Witness ==
    /\ last_op = "other"
    /\ selected_row >= 1
    /\ tcs[At(filtered_test_cases, selected_row)].name = "C"
    /\ [i \in 1..5 |-> Ledger(At(filtered_test_cases, selected_row))[i].time_ms]
          = <<Some(2), None, Some(3), None, None>>
    /\ sw_test_cases = <<At(filtered_test_cases, selected_row)>>
    /\ current_iteration_index = 1

\* C5: a confirm while no row of the table is selected writes no ledger slot
\* of the Session and leaves the Timer, the iteration index and the
\* unsaved-changes flag unchanged.
C5_NoSelectionNoOp ==
    [][(ConfirmStep /\ selected_row = -1) =>
          /\ \A t \in Range(SessionList) :
                /\ tcs'[t].iterations = tcs[t].iterations
                /\ LedgerAfter(t) = Ledger(t)
          /\ UNCHANGED <<is_running, elapsed_ms, current_iteration_index,
                         unsaved_changes>>]_vars

\* C6: the fifth confirm on a test case leaves the selected row unchanged and
\* the stopwatch without an active test case, and from then on until a test
\* case is selected again no confirm writes a ledger slot of the Session.
C6_CompletionOnly ==
    [][/\ (ConfirmStep /\ Active /\ current_iteration_index = 4) =>
             (selected_row' = selected_row /\ current_test_case_index' = -1)
       /\ (ConfirmStep /\ completed) =>
             \A t \in Range(SessionList) :
                /\ tcs'[t].iterations = tcs[t].iterations
                /\ LedgerAfter(t) = Ledger(t)]_vars

\* C7: the view is the list of the Session test cases whose priority is the
\* applied filter, in the order of the Session, the whole list under "All",
\* and the empty list when there is no session.
C7_FilterView ==
    LET S == SessionList
        p == current_filter
        idxs == {i \in 1..Len(S) : p = "All" \/ tcs[S[i]].priority = p}
        nth(k) == CHOOSE i \in idxs : Cardinality({j \in idxs : j < i}) = k - 1
    IN /\ Len(filtered_test_cases) = Cardinality(idxs)
       /\ \A k \in 1..Len(filtered_test_cases) : filtered_test_cases[k] = S[nth(k)]
       /\ current_session = None => filtered_test_cases = <<>>

\* the filter P0 was applied to a Session of three test cases whose second one
\* has another priority: the view shows the first and the third
C7_Witness ==
    /\ last_op = "filter"
    /\ current_filter = "P0"
    /\ Len(SessionList) = 3
    /\ filtered_test_cases = <<SessionList[1], SessionList[3]>>

\* C8: an edit of the notes or the baseline through a row changes the
\* TestCase object that the row displays, and a timing confirmed while a row
\* is selected is written to the object that row displays and to no other
\* TestCase of the Session.
C8_EditsReachDisplayedRow ==
    [][/\ \A row \in 0..(Len(filtered_test_cases) - 1) :
             LET t == At(filtered_test_cases, row)
             IN /\ \A text \in CellTexts :
                      EditCellAt(row, "Notes", text) =>
                          tcs'[t].test_notes = Strip(text)
                /\ EditCellAt(row, "Baseline", "2") => tcs'[t].baseline_ms = Some(2)
                /\ EditCellAt(row, "Baseline", "") => tcs'[t].baseline_ms = None
       /\ (ConfirmStep /\ selected_row >= 0 /\ Active /\ current_iteration_index < 5) =>
             LET t == At(filtered_test_cases, selected_row)
             IN /\ LedgerAfter(t)[current_iteration_index + 1].time_ms
                      = Some(FrozenElapsed)
                /\ \A u \in Range(SessionList) \ {t} : LedgerAfter(u) = Ledger(u)]_vars

\* C9: a filter change leaves the Session as it was: the same TestCase
\* objects in the same order, each with its fields and its ledger unchanged.
C9_FilterKeepsSession ==
    [][last_op' = "filter" =>
          /\ current_session' = current_session
          /\ \A t \in Range(SessionList) :
                /\ tcs'[t] = tcs[t]
                /\ LedgerAfter(t) = Ledger(t)]_vars

\* a filter change has just hidden a test case that holds a confirmed timing
\* with its note
C9_Witness ==
    /\ last_op = "filter"
    /\ current_filter # "All"
    /\ \E t \in Range(SessionList) :
          /\ t \notin Range(filtered_test_cases)
          /\ \E i \in 1..5 : Ledger(t)[i].notes = "a"

\* C10: the priority_filter of the Session is the filter the view applies.
C10_SessionRecordsFilter ==
    current_session # None => current_session[1].priority_filter = current_filter

---------------------------------------------------------------------------
(* Properties of the statistics *)

Applied(fn) == calc.fn = fn /\ calc.done

\* the positions of a list whose iteration has a time and is not skipped
Measured(iterations) ==
    {i \in 1..Len(iterations) :
        iterations[i].time_ms # None /\ ~iterations[i].skipped}

RECURSIVE TotalOver(_, _)
\* the sum of the times at a set of positions
TotalOver(iterations, positions) ==
    IF positions = {} THEN 0
    ELSE LET i == CHOOSE i \in positions : TRUE
         IN iterations[i].time_ms[1] + TotalOver(iterations, positions \ {i})

\* C11: calculate_average returns the mean of exactly the iterations that
\* have a time and are not skipped (the mean times their number is their
\* sum), and returns no value, not zero, when there is no such iteration
C11_AverageOfMeasured ==
    Applied("calculate_average") =>
        LET measured == Measured(calc.iterations)
        IN IF measured = {} THEN calc.result = None
           ELSE /\ calc.result # None
                /\ calc.result[1][2] > 0
                /\ Same(Times(calc.result[1], Num(Cardinality(measured))),
                        Num(TotalOver(calc.iterations, measured)))

\* the mean 11 of 10 and 12, next to a skipped iteration that has a time
C11_Witness ==
    /\ Applied("calculate_average")
    /\ calc.iterations = <<Recorded(10), Skipped(Some(14)), Recorded(12)>>
    /\ calc.result # None
    /\ Same(calc.result[1], Num(11))

\* the deviation is the percentage: spike * reference = 100 * (time - reference)
IsDeviation(spike, iteration_ms, reference_ms) ==
    /\ spike # None
    /\ spike[1][2] > 0
    /\ Same(Times(spike[1], reference_ms),
            Times(Num(100), Minus(iteration_ms, reference_ms)))

\* C12: calculate_spike is undefined when the time is absent or not positive;
\* otherwise it is the percentage deviation from the baseline when the
\* baseline is positive, whatever the average, from the average when the
\* baseline is absent or not positive and the average is positive, and
\* undefined when neither is positive
C12_SpikeReference ==
    Applied("calculate_spike") =>
        LET time == OptNum(calc.iteration_ms)
            baseline == OptNum(calc.baseline_ms)
            average == calc.average_ms
            has(v) == v # None /\ Less(Num(0), v[1])
        IN IF ~has(time) THEN calc.result = None
           ELSE IF has(baseline)
                THEN IsDeviation(calc.result, time[1], baseline[1])
           ELSE IF has(average)
                THEN IsDeviation(calc.result, time[1], average[1])
           ELSE calc.result = None

\* 12 against the baseline 10 is a spike of 20 percent although the average
\* is 8
C12_Witness ==
    /\ Applied("calculate_spike")
    /\ calc.iteration_ms = Some(12)
    /\ calc.baseline_ms = Some(10)
    /\ calc.average_ms = Some(Num(8))
    /\ calc.result # None
    /\ Same(calc.result[1], Num(20))

---------------------------------------------------------------------------
(* Properties of the Timer *)

\* C14: start on a stopped Timer makes it running with the measurement
\* beginning from zero, whatever value was frozen before; start on a running
\* Timer changes nothing and does not restart the measurement
C14_Start ==
    /\ [](~is_running =>
            LET s == start_timer(State)
            IN s.is_running /\ s.elapsed_timer = 0)
    /\ [](is_running => start_timer(State) = State)
    /\ [][last_op' = "toggle" /\ ~is_running =>
            is_running' /\ elapsed_timer' = 0]_vars

\* a Timer started again after the value 1 was frozen: it measures from 0
C14_Witness ==
    /\ last_op = "toggle"
    /\ is_running
    /\ elapsed_timer = 0
    /\ elapsed_ms = 1

\* C15: stop on a running Timer makes it not running and freezes the elapsed
\* value, which no tick changes and which stays until the next start or
\* reset (a confirm resets the Timer); stop on a Timer that is not running
\* leaves everything unchanged
C15_Stop ==
    /\ [](is_running =>
            LET s == stop_timer(State)
            IN ~s.is_running /\ s.elapsed_ms = elapsed_timer)
    /\ [](~is_running =>
            stop_timer(State) = State /\ update_time(State) = State)
    /\ [][last_op' = "toggle" /\ is_running =>
            ~is_running' /\ elapsed_ms' = elapsed_timer]_vars
    /\ [][~is_running /\ ~is_running' /\ last_op' \notin {"reset", "confirm"} =>
            elapsed_ms' = elapsed_ms]_vars

\* a Timer stopped after one unit of time that the display had not shown yet
C15_Witness ==
    /\ last_op = "toggle"
    /\ ~is_running
    /\ elapsed_ms = 1
    /\ reset_enabled

\* C16: reset, from any Timer state, leaves the Timer not running with the
\* elapsed value zero
C16_Reset ==
    /\ [](LET s == reset_timer(State)
          IN ~s.is_running /\ s.elapsed_ms = 0 /\ ~s.checked)
    /\ [][last_op' = "reset" => ~is_running' /\ elapsed_ms' = 0]_vars

\* the Reset button was clicked
C16_Witness ==
    /\ last_op = "reset"
    /\ ~is_running
    /\ elapsed_ms = 0
    /\ ~reset_enabled

---------------------------------------------------------------------------
(* Properties of the persisted data *)

\* an Iteration has the values of the entry it was made from, and the
\* defaults for the keys the entry lacks
MadeFrom(iteration, entry) ==
    \A key \in {"time_ms", "notes", "skipped"} :
        iteration[key] = IF key \in DOMAIN entry THEN entry[key]
                         ELSE Iteration[key]

\* C17: TestCase.from_dict yields exactly 5 iterations for any number n of
\* input entries, also when the key is absent: the first min(n, 5) are the
\* input entries in order, the remaining slots are empty iterations
C17_FiveIterations ==
    Applied("TestCase.from_dict") =>
        LET entries == IF "iterations" \in DOMAIN calc.data
                       THEN calc.data.iterations ELSE <<>>
            made == calc.result.iterations
        IN /\ Len(made) = 5
           /\ \A i \in 1..5 :
                IF i <= Len(entries) THEN MadeFrom(made[i], entries[i])
                ELSE made[i] = Iteration

\* seven entries, the sixth and seventh with a time, are cut to the first
\* five, which are skipped
C17_Witness ==
    /\ Applied("TestCase.from_dict")
    /\ "iterations" \in DOMAIN calc.data
    /\ Len(calc.data.iterations) = 7
    /\ \A i \in 1..7 : ("time_ms" \in DOMAIN calc.data.iterations[i]) = (i > 5)
    /\ \A i \in 1..5 : "skipped" \in DOMAIN calc.data.iterations[i]
    /\ \A i \in 1..5 : calc.result.iterations[i] = Skipped(None)

\* C18: in every reachable state of the application every TestCase of the
\* current Session has exactly 5 iterations
C18_FiveEverywhere ==
    \A t \in Range(SessionList) : Len(tcs[t].iterations) = 5

\* a session loaded from a file that stores four entries for B and seven for
\* D, after two changes, the last one a confirm that filled B's fifth slot
C18_Witness ==
    /\ last_op = "confirm"
    /\ changes = MaxTableChanges
    /\ \E b, d \in Range(SessionList) :
          /\ tcs[b].name = "B"
          /\ tcs[d].name = "D"
          /\ \A i \in 1..5 : iters[tcs[b].iterations[i]].time_ms # None

\* C19: for every Session whose TestCases each have 5 iterations, saving it
\* (Session.to_dict, encoded as JSON) and loading it back (the JSON decoded,
\* Session.from_dict) yields a Session equal field for field, including the
\* order of the test cases and every iteration's time_ms, notes and skipped
C19_RoundTrip ==
    Applied("save and load") =>
        ((\A k \in 1..Len(calc.data.test_cases) :
              Len(calc.data.test_cases[k].iterations) = 5)
         => /\ DOMAIN calc.result = DOMAIN calc.data
            /\ \A field \in DOMAIN calc.data :
                  calc.result[field] = calc.data[field])

\* a Session of two different test cases with baselines, notes, skipped and
\* empty iterations and an end time came back
C19_Witness ==
    /\ Applied("save and load")
    /\ calc.data.end_time # None
    /\ Len(calc.data.test_cases) = 2
    /\ calc.data.test_cases[1].name = "B"
    /\ calc.data.test_cases[2].name = "A"
    /\ calc.result = calc.data

---------------------------------------------------------------------------
(* Properties of a failed load *)

\* C20: loading a missing or malformed session file lets no exception
\* escape, and leaves the application with no current session, an empty
\* Filter View and the unsaved-changes flag cleared
C20_FailedLoadContained ==
    [][last_op' = "load failed" =>
          /\ raised' = None
          /\ current_session' = None
          /\ filtered_test_cases' = <<>>
          /\ ~unsaved_changes']_vars

---------------------------------------------------------------------------
(* Properties of the table's slots and of manual edits *)

\* rows and iteration indexes handed to update_iteration_data, in and out of
\* their ranges
RowArguments == -1..(MaxTC + 1)
IndexArguments == -1..(NumIterations + 1)
\* references handed to it: the first Iteration of two ledgers
IterationArguments == {1, NumIterations + 1}

\* C21: an iteration update whose row index is outside the current Filter
\* View, or whose iteration index is outside 0..4, returns after its error
\* message and leaves the Session, its test case list and every ledger,
\* unchanged
C21_OutOfRangeIgnored ==
    \A row \in RowArguments, index \in IndexArguments, data \in IterationArguments :
        (\/ row < 0
         \/ row >= Len(filtered_test_cases)
         \/ index < 0
         \/ index >= 5)
        => update_iteration_data(State, row, index, data) = State

\* a confirm with an empty Filter View has emitted iteration_saved(0, 0, ...)
\* for the placeholder test case, while the Session has test cases
C21_Witness ==
    /\ last_op = "confirm"
    /\ current_session # None
    /\ SessionList # <<>>
    /\ filtered_test_cases = <<>>
    /\ current_iteration_index = 1

\* the rows of the Filter View
Rows == 0..(Len(filtered_test_cases) - 1)

\* the TestCase that row displays
Displayed(row) == At(filtered_test_cases, row)

\* C22: a manual baseline edit with text that is not a number leaves the
\* TestCase's baseline_ms unchanged and raises no data-changed notification
\* (nothing changes, the unsaved flag included); an edit with empty text sets
\* the baseline_ms of the TestCase of the edited row to None
C22_BaselineEdits ==
    \A row \in Rows :
        /\ \A text \in {"n", "abc", "s"} :
              handle_cell_changed(State, row, "Baseline", text) = State
        /\ LET s == handle_cell_changed(State, row, "Baseline", "")
           IN s.tcs[Displayed(row)].baseline_ms = None

\* C23: after any sequence of manual baseline edits, the baseline_ms of every
\* TestCase in the Session is either None or a positive number
C23_BaselinePositive ==
    \A t \in Range(SessionList) :
        tcs[t].baseline_ms = None \/ tcs[t].baseline_ms[1] > 0

---------------------------------------------------------------------------
(* Properties of the displayed cells *)

\* the same number or both None
SameOptional(a, b) ==
    IF a = None \/ b = None THEN a = None /\ b = None ELSE Same(a[1], b[1])

\* C24: after a confirm on the selected row r of the view, the time cell of
\* the written slot on row r shows the recorded time and the Average cell of
\* row r shows the average of the ledger of the row's test case, whichever
\* row r is.
C24_ShownOnSelectedRow ==
    [][(ConfirmStep /\ selected_row >= 0 /\ Active /\ current_iteration_index < 5) =>
          LET t == At(filtered_test_cases, selected_row)
              shown == items'[selected_row + 1]
          IN /\ shown.times[current_iteration_index + 1] = Some(FrozenElapsed)
             /\ SameOptional(shown.average, calculate_average(LedgerAfter(t)))]_vars

---------------------------------------------------------------------------
(* Properties of the order of the statements of a confirm *)

\* the running confirm is about to execute the statement
Executes(statement) == pc' # pc /\ confirm_program[pc + 1] = statement

\* the slot that the running confirm records holds the stopped time
SlotWritten == iters[CurrentIteration(State)].time_ms = Some(elapsed_ms)

\* the table's slot of iteration_saved has run: running it again for the same
\* emission changes neither the Session nor a cell
TableUpdated ==
    update_iteration_data(State, current_test_case_index, current_iteration_index,
                          CurrentIteration(State)) = State

\* C25: in a recording confirm the ledger slot is written before
\* iteration_saved is emitted; the table's update of the data model, the
\* average and the spikes is complete before the unsaved-changes flag is set,
\* before the Timer is reset and before the iteration index advances.  The
\* statements executed one by one amount to the handler executed at once.
C25_ConfirmOrder ==
    [][/\ Executes("table") => SlotWritten
       /\ Executes("flag") => SlotWritten /\ TableUpdated
       /\ Executes("reset") => SlotWritten /\ TableUpdated /\ unsaved_changes
       /\ Executes("advance") => TableUpdated /\ unsaved_changes /\ elapsed_ms = 0
       /\ Executes("write") =>
             Collect(run_confirm(State, 0)) = Collect(confirm_and_next(State))]_vars

\* the flag was just set by a confirm that recorded the time 1 while nothing
\* was unsaved: the table shows the time and the Timer still holds it
C25_Witness ==
    /\ pc = 3
    /\ unsaved_changes
    /\ changes = 1
    /\ elapsed_ms = 1
    /\ TableUpdated
    /\ items[1].times[current_iteration_index + 1] = Some(1)

---------------------------------------------------------------------------
(* Properties of the ledgers of a new project *)

\* no recorded slot of the ledger follows a slot without a time
RecordedPrefix(ledger) ==
    \A i, j \in 1..Len(ledger) :
        (i < j /\ ledger[j].time_ms # None) => ledger[i].time_ms # None

\* C26: in a Session that started with empty ledgers, after any sequence of
\* selections, filter changes and confirms the recorded slots of every
\* TestCase form a prefix of its ledger.
C26_RecordedPrefix ==
    \A t \in Range(SessionList) : RecordedPrefix(Ledger(t))

---------------------------------------------------------------------------
(* Properties of the Start/Stop button *)

\* the state inside start_timer or stop_timer at its call of setChecked, had
\* the button not yet the value it is set to
AtSetChecked(value) ==
    IF value
    THEN [State EXCEPT !.elapsed_timer = 0, !.is_running = TRUE, !.checked = FALSE]
    ELSE [State EXCEPT !.elapsed_ms = elapsed_timer, !.is_running = FALSE,
                       !.checked = TRUE]

\* C27: between user events the Start/Stop button is checked exactly when the
\* Timer runs, and the toggled callback that setChecked re-enters from inside
\* start_timer or stop_timer changes nothing but the button: the Timer is not
\* started or stopped a second time.
C27_ButtonFollowsTimer ==
    /\ checked = is_running
    /\ \A value \in BOOLEAN :
          setChecked(AtSetChecked(value), value)
             = [AtSetChecked(value) EXCEPT !.checked = value]

\* a confirm has stopped the running Timer at 1 and recorded it
C27_Witness ==
    /\ last_op = "confirm"
    /\ changes = 1
    /\ ~checked
    /\ ~is_running
    /\ elapsed_timer = 0
    /\ \E t \in Range(SessionList) : \E i \in 1..Len(Ledger(t)) :
          Ledger(t)[i].time_ms = Some(MaxMs)

---------------------------------------------------------------------------
(* Properties of the unsaved-changes flag *)

\* the step is an edit of a Notes or Baseline cell that changed the test case
EditAccepted ==
    /\ last_op' = "other"
    /\ changes' = changes + 1
    /\ tcs' # tcs

\* C28: a confirm that writes a ledger slot and an accepted edit of the test
\* notes or the baseline leave the unsaved-changes flag set; the flag is
\* cleared by nothing but a save that wrote the file, an accepted new project
\* or a load; a cancelled or failed save leaves it as it is
C28_UnsavedUntilSaved ==
    [][/\ (last_op' = "confirm" /\ Records(State)) => unsaved_changes'
       /\ EditAccepted => unsaved_changes'
       /\ (unsaved_changes /\ ~unsaved_changes') =>
             last_op' \in {"saved", "close, saved", "load", "load failed"}
       /\ last_op' \in {"save cancelled", "save failed",
                        "close, save cancelled", "close, save failed"} =>
             unsaved_changes' = unsaved_changes]_vars

---------------------------------------------------------------------------
(* Properties of a close request *)

\* C29: with the unsaved-changes flag set, a close request closes the window
\* only if the user chose Discard, or chose Save and the save wrote the file;
\* after Cancel, a cancelled save dialog or a save error the window is open
\* and the session and its test cases are what they were
C29_CloseKeepsUnsaved ==
    [][unsaved_changes =>
          /\ (window_open /\ ~window_open') =>
                last_op' \in {"close, discard", "close, saved"}
          /\ last_op' \in {"close, cancel", "close, save cancelled",
                           "close, save failed"} =>
                /\ window_open'
                /\ current_session' = current_session
                /\ tcs' = tcs
                /\ iters' = iters]_vars

\* a recording was made, the user asked to close and chose Save, and the file
\* could not be written: the window is open and the flag is set
C29_Witness ==
    /\ last_op = "close, save failed"
    /\ window_open
    /\ unsaved_changes
    /\ changes = 1

---------------------------------------------------------------------------
(* Properties of the global notes *)

\* C30: whatever the order of typing into the global notes editor, timeouts of
\* the debounce timer, saves and close requests, while the unsaved-changes
\* flag is false the session's global_notes is the text of the editor, and
\* the file that a save has just written holds that text
C30_NotesInSession ==
    /\ (~unsaved_changes /\ current_session # None) =>
           current_session[1].global_notes = global_notes_edit
    /\ (last_op \in {"saved", "close, saved"} /\ session_file # None) =>
           session_file[1].global_notes = global_notes_edit

=============================================================================
